---- MODULE Spec2Model ----
(***************************************************************************)
(* The URL-processor workflow of recipist-mastra: the eight steps chained  *)
(* by urlProcessorWorkflow, the record each step returns to the next one, *)
(* and the pure helpers the steps call (URL classification, unit          *)
(* categorisation, language resolution, metadata parsing), the HTML        *)
(* cleaner, the HTTP handler that starts a run for a request, and two      *)
(* runs executing in one process.                                          *)
(*                                                                         *)
(* Strings are TLA+ strings; an optional JavaScript value is a sequence   *)
(* of length at most one: None is undefined, Some(v) is the value v.      *)
(***************************************************************************)
EXTENDS Integers, Sequences, FiniteSets, TLC

None == <<>>
Some(v) == <<v>>

\* JavaScript truthiness of an optional string: defined and not "".
TruthyStr(o) == o # None /\ o[1] # ""

(***************************************************************************)
(* String helpers (String.prototype.includes / indexOf / toLowerCase /    *)
(* trim and the character classes of the regular expressions).            *)
(***************************************************************************)
Char(s, i) == SubSeq(s, i, i)

StartsWithAt(s, sub, i) ==
  /\ i >= 1
  /\ i + Len(sub) - 1 <= Len(s)
  /\ SubSeq(s, i, i + Len(sub) - 1) = sub

Includes(s, sub) == \E i \in 1..(Len(s) - Len(sub) + 1) : StartsWithAt(s, sub, i)

\* Least index >= from at which sub occurs in s, 0 when there is none.
IndexOfFrom(s, sub, from) ==
  LET hits == {i \in from..(Len(s) - Len(sub) + 1) : StartsWithAt(s, sub, i)}
  IN  IF hits = {} THEN 0 ELSE CHOOSE i \in hits : \A j \in hits : i <= j

\* Greatest index at which sub occurs in s, 0 when there is none.
LastIndexOf(s, sub) ==
  LET hits == {i \in 1..(Len(s) - Len(sub) + 1) : StartsWithAt(s, sub, i)}
  IN  IF hits = {} THEN 0 ELSE CHOOSE i \in hits : \A j \in hits : i >= j

\* The lower-case letter of each upper-case ASCII letter.
LowerOf ==
  [A |-> "a", B |-> "b", C |-> "c", D |-> "d", E |-> "e", F |-> "f", G |-> "g",
   H |-> "h", I |-> "i", J |-> "j", K |-> "k", L |-> "l", M |-> "m", N |-> "n",
   O |-> "o", P |-> "p", Q |-> "q", R |-> "r", S |-> "s", T |-> "t", U |-> "u",
   V |-> "v", W |-> "w", X |-> "x", Y |-> "y", Z |-> "z"]

LowerLetters == {LowerOf[c] : c \in DOMAIN LowerOf}

\* The value of each decimal digit.
DigitValue ==
  ("0" :> 0) @@ ("1" :> 1) @@ ("2" :> 2) @@ ("3" :> 3) @@ ("4" :> 4) @@ ("5" :> 5)
  @@ ("6" :> 6) @@ ("7" :> 7) @@ ("8" :> 8) @@ ("9" :> 9)

IsUpper(c) == c \in DOMAIN LowerOf
IsLower(c) == c \in LowerLetters
IsDigit(c) == c \in DOMAIN DigitValue
IsAlpha(c) == IsUpper(c) \/ IsLower(c)

LowerChar(c) == IF IsUpper(c) THEN LowerOf[c] ELSE c

RECURSIVE ToLowerCase(_)
ToLowerCase(s) ==
  IF s = "" THEN "" ELSE LowerChar(Char(s, 1)) \o ToLowerCase(SubSeq(s, 2, Len(s)))

\* \s of the regular expressions, restricted to the characters the model uses.
IsSpace(c) == c \in {" ", "\t", "\n", "\r"}
\* The characters "." does not match.
IsLineTerminator(c) == c \in {"\n", "\r"}

RECURSIVE TrimStart(_)
TrimStart(s) ==
  IF s # "" /\ IsSpace(Char(s, 1)) THEN TrimStart(SubSeq(s, 2, Len(s))) ELSE s

RECURSIVE TrimEnd(_)
TrimEnd(s) ==
  IF s # "" /\ IsSpace(Char(s, Len(s))) THEN TrimEnd(SubSeq(s, 1, Len(s) - 1)) ELSE s

Trim(s) == TrimEnd(TrimStart(s))

(***************************************************************************)
(* new URL(input), as far as the workflow observes it: whether the        *)
(* constructor throws, and the hostname of the parsed URL.                *)
(***************************************************************************)
SpecialSchemes == {"http", "https", "ftp", "ws", "wss"}

ForbiddenHostChars == {" ", "<", ">", "[", "]", "^", "|", "%", "\t", "\n", "\r"}

IsSchemeChar(c) == IsAlpha(c) \/ IsDigit(c) \/ c \in {"+", "-", "."}

AllSchemeChars(s) == \A i \in 1..Len(s) : IsSchemeChar(Char(s, i))
AllDigits(s) == \A i \in 1..Len(s) : IsDigit(Char(s, i))
AllLower(s) == \A i \in 1..Len(s) : IsLower(Char(s, i))

\* Index of the first of the characters in stops at or after from; Len(s)+1 if none.
FirstStop(s, from, stops) ==
  LET hits == {i \in from..Len(s) : Char(s, i) \in stops}
  IN  IF hits = {} THEN Len(s) + 1 ELSE CHOOSE i \in hits : \A j \in hits : i <= j

RECURSIVE SkipSlashes(_, _)
SkipSlashes(s, i) ==
  IF i <= Len(s) /\ Char(s, i) \in {"/", "\\"} THEN SkipSlashes(s, i + 1) ELSE i

\* The authority "userinfo@host:port" split into host and port.
AuthorityHost(auth) ==
  LET at       == LastIndexOf(auth, "@")
      hostport == SubSeq(auth, at + 1, Len(auth))
      colon    == IndexOfFrom(hostport, ":", 1)
  IN  IF colon = 0 THEN [host |-> hostport, port |-> ""]
      ELSE [host |-> SubSeq(hostport, 1, colon - 1),
            port |-> SubSeq(hostport, colon + 1, Len(hostport))]

AllHostChars(s) == \A i \in 1..Len(s) : Char(s, i) \notin ForbiddenHostChars

UrlFailure == [ok |-> FALSE, hostname |-> ""]

ParseUrl(input) ==
  LET s     == Trim(input)
      colon == IndexOfFrom(s, ":", 1)
      scheme == ToLowerCase(SubSeq(s, 1, colon - 1))
  IN  IF colon <= 1 \/ ~IsAlpha(Char(s, 1)) \/ ~AllSchemeChars(SubSeq(s, 1, colon - 1))
      THEN UrlFailure                      \* no scheme and no base URL
      ELSE
        LET special == scheme \in SpecialSchemes
            start   == IF special THEN SkipSlashes(s, colon + 1)
                       ELSE IF StartsWithAt(s, "//", colon + 1) THEN colon + 3
                       ELSE 0
        IN  IF start = 0
            THEN [ok |-> TRUE, hostname |-> ""]   \* opaque path, no authority
            ELSE
              LET stop == FirstStop(s, start, {"/", "\\", "?", "#"})
                  hp   == AuthorityHost(SubSeq(s, start, stop - 1))
              IN  IF \/ (special /\ hp.host = "")
                     \/ ~AllHostChars(hp.host)
                     \/ ~AllDigits(hp.port)
                  THEN UrlFailure
                  ELSE [ok |-> TRUE, hostname |-> ToLowerCase(hp.host)]

\* The strings a run may be started with.
Inputs ==
  {"", "not a url at all", "example.com/recipe",
   "https://www.instagram.com/p/abc123", "https://WWW.TikTok.com/@cook",
   "https://instagram.com.fb.com/v", "https://pin.it/abc", "https://t.co/xyz",
   "https://example.com/recipe", "https://netflix.com/title/1",
   "mailto:cook@example.com"}

\* "new URL(input)" for each of the inputs, parsed once.
URL == [input \in Inputs |-> ParseUrl(input)]

\* isValidUrl: true unless the URL constructor throws.
isValidUrl(input) == URL[input].ok

\* hostname.replace(/^www\./, "")
StripWww(hostname) ==
  IF StartsWithAt(hostname, "www.", 1) THEN SubSeq(hostname, 5, Len(hostname)) ELSE hostname

NotSocial == [isSocial |-> FALSE, provider |-> None, displayName |-> None]

Social(provider, displayName) ==
  [isSocial |-> TRUE, provider |-> Some(provider), displayName |-> Some(displayName)]

detectSocialProvider(url) ==
  LET parsed        == URL[url]
      cleanHostname == StripWww(ToLowerCase(parsed.hostname))
  IN  IF ~parsed.ok THEN NotSocial
      ELSE IF Includes(cleanHostname, "tiktok.com") THEN Social("tiktok", "TikTok")
      ELSE IF Includes(cleanHostname, "instagram.com") THEN Social("instagram", "Instagram")
      ELSE IF Includes(cleanHostname, "facebook.com") \/ Includes(cleanHostname, "fb.com")
           THEN Social("facebook", "Facebook")
      ELSE IF Includes(cleanHostname, "pinterest.com") \/ Includes(cleanHostname, "pin.it")
           THEN Social("pinterest", "Pinterest")
      ELSE IF \/ Includes(cleanHostname, "twitter.com")
              \/ Includes(cleanHostname, "x.com")
              \/ Includes(cleanHostname, "t.co")
           THEN Social("x", "X (Twitter)")
      ELSE NotSocial

(***************************************************************************)
(* parseUnitsCategory: the first keyword of the category's ordered list   *)
(* that occurs in the lowercased units string, then the generic           *)
(* "metric" / "imperial" defaults, else undefined.                        *)
(***************************************************************************)
Categories == {"length", "liquid", "weight", "temperature"}

unitPatterns ==
  [length |-> <<"cm", "centimeter", "inch", "inches", "mm", "millimeter", "meter",
                "metres", "feet", "ft">>,
   liquid |-> <<"ml", "milliliter", "liter", "litre", "cup", "cups", "tablespoon", "tbsp",
                "teaspoon", "tsp", "fluid ounce", "fl oz", "pint", "quart", "gallon">>,
   weight |-> <<"gram", "grams", "g", "kilogram", "kg", "ounce", "oz", "pound", "pounds",
                "lb", "lbs">>,
   temperature |-> <<"celsius", "c", "fahrenheit", "f", "kelvin", "k">>]

metricDefault ==
  [length |-> "cm", liquid |-> "ml", weight |-> "grams", temperature |-> "celsius"]

imperialDefault ==
  [length |-> "inch", liquid |-> "cup", weight |-> "ounces", temperature |-> "fahrenheit"]

\* Variant: the loop keeps the last keyword that occurs instead of returning the first.
LastPattern(unitsLower, patterns) ==
  LET hits == {i \in 1..Len(patterns) : Includes(unitsLower, patterns[i])}
  IN  IF hits = {} THEN None
      ELSE Some(patterns[CHOOSE i \in hits : \A j \in hits : i >= j])

\* The loop "for (const unit of unitPatterns[category]) if (includes) return unit".
FirstPattern(unitsLower, patterns) ==
  LET hits == {i \in 1..Len(patterns) : Includes(unitsLower, patterns[i])}
  IN  IF hits = {} THEN None
      ELSE Some(patterns[CHOOSE i \in hits : \A j \in hits : i <= j])

parseUnitsCategory(units, category) ==
  LET unitsLower == ToLowerCase(units)
      found      == FirstPattern(unitsLower, unitPatterns[category])
  IN  IF found # None THEN found
      ELSE IF Includes(unitsLower, "metric") THEN Some(metricDefault[category])
      ELSE IF Includes(unitsLower, "imperial") THEN Some(imperialDefault[category])
      ELSE None

(***************************************************************************)
(* getLanguageISOCode: exact lookup in languageMap, then the first entry  *)
(* (in insertion order) that contains the input or is contained in it,   *)
(* then a two-letter input returned as it is.                             *)
(***************************************************************************)
languageMap == <<
  <<"english", "en">>, <<"spanish", "es">>, <<"french", "fr">>, <<"german", "de">>,
  <<"italian", "it">>, <<"portuguese", "pt">>, <<"russian", "ru">>, <<"chinese", "zh">>,
  <<"japanese", "ja">>, <<"korean", "ko">>, <<"arabic", "ar">>, <<"hindi", "hi">>,
  <<"dutch", "nl">>, <<"swedish", "sv">>, <<"norwegian", "no">>, <<"danish", "da">>,
  <<"finnish", "fi">>, <<"polish", "pl">>, <<"czech", "cs">>, <<"hungarian", "hu">>,
  <<"greek", "el">>, <<"hebrew", "he">>, <<"thai", "th">>, <<"vietnamese", "vi">>,
  <<"turkish", "tr">>, <<"indonesian", "id">>, <<"malay", "ms">>, <<"filipino", "tl">>,
  <<"ukrainian", "uk">>, <<"romanian", "ro">>, <<"bulgarian", "bg">>, <<"croatian", "hr">>,
  <<"serbian", "sr">>, <<"slovak", "sk">>, <<"slovenian", "sl">>, <<"lithuanian", "lt">>,
  <<"latvian", "lv">>, <<"estonian", "et">>, <<"catalan", "ca">>, <<"basque", "eu">>,
  <<"galician", "gl">>, <<"irish", "ga">>, <<"welsh", "cy">>, <<"scottish", "gd">>,
  <<"icelandic", "is">>, <<"maltese", "mt">>, <<"luxembourgish", "lb">>, <<"albanian", "sq">>,
  <<"macedonian", "mk">>, <<"belarusian", "be">>, <<"georgian", "ka">>, <<"armenian", "hy">>,
  <<"azerbaijani", "az">>, <<"kazakh", "kk">>, <<"uzbek", "uz">>, <<"kyrgyz", "ky">>,
  <<"tajik", "tg">>, <<"turkmen", "tk">>, <<"mongolian", "mn">>, <<"tibetan", "bo">>,
  <<"burmese", "my">>, <<"khmer", "km">>, <<"lao", "lo">>, <<"bengali", "bn">>,
  <<"urdu", "ur">>, <<"punjabi", "pa">>, <<"gujarati", "gu">>, <<"marathi", "mr">>,
  <<"tamil", "ta">>, <<"telugu", "te">>, <<"kannada", "kn">>, <<"malayalam", "ml">>,
  <<"sinhalese", "si">>, <<"nepali", "ne">>, <<"persian", "fa">>, <<"farsi", "fa">>,
  <<"dari", "prs">>, <<"pashto", "ps">>, <<"kurdish", "ku">>, <<"swahili", "sw">>,
  <<"yoruba", "yo">>, <<"igbo", "ig">>, <<"hausa", "ha">>, <<"amharic", "am">>,
  <<"oromo", "om">>, <<"somali", "so">>, <<"zulu", "zu">>, <<"xhosa", "xh">>,
  <<"afrikaans", "af">>, <<"mandarin", "zh">>, <<"cantonese", "yue">>,
  <<"simplified chinese", "zh">>, <<"traditional chinese", "zh">>,
  <<"mexican spanish", "es">>, <<"latin american spanish", "es">>, <<"castilian", "es">>,
  <<"brazilian portuguese", "pt">>, <<"european portuguese", "pt">>,
  <<"american english", "en">>, <<"british english", "en">>, <<"australian english", "en">>,
  <<"canadian english", "en">>, <<"canadian french", "fr">>, <<"quebec french", "fr">>,
  <<"swiss german", "de">>, <<"austrian german", "de">>
>>

LanguageLookup(languageLower) ==
  LET hits == {i \in 1..Len(languageMap) : languageMap[i][1] = languageLower}
  IN  IF hits = {} THEN None ELSE Some(languageMap[CHOOSE i \in hits : TRUE][2])

LanguagePartial(languageLower) ==
  LET hits == {i \in 1..Len(languageMap) :
                 \/ Includes(languageLower, languageMap[i][1])
                 \/ Includes(languageMap[i][1], languageLower)}
  IN  IF hits = {} THEN None
      ELSE Some(languageMap[CHOOSE i \in hits : \A j \in hits : i <= j][2])

\* Variant: the partial matches are tried before the direct lookup.
getLanguageISOCodePartialFirst(language) ==
  LET languageLower == Trim(ToLowerCase(language))
  IN  IF language = "" THEN None
      ELSE IF LanguagePartial(languageLower) # None THEN LanguagePartial(languageLower)
      ELSE IF LanguageLookup(languageLower) # None THEN LanguageLookup(languageLower)
      ELSE IF Len(languageLower) = 2 /\ AllLower(languageLower) THEN Some(languageLower)
      ELSE None

getLanguageISOCode(language) ==
  LET languageLower == Trim(ToLowerCase(language))
  IN  IF language = "" THEN None
      ELSE IF LanguageLookup(languageLower) # None THEN LanguageLookup(languageLower)
      ELSE IF LanguagePartial(languageLower) # None THEN LanguagePartial(languageLower)
      ELSE IF Len(languageLower) = 2 /\ AllLower(languageLower) THEN Some(languageLower)
      ELSE None

(***************************************************************************)
(* The metadata block of a recipe response, as recipeExtractionStep reads *)
(* it with its regular expressions.                                       *)
(***************************************************************************)
MetadataStart == "---RECIPE_METADATA---"
MetadataEnd == "---END_METADATA---"
\* Variant: the step compares with a shorter sentinel.
NotARecipeShort == "not a recipe"

NotARecipe == "this is not a recipe"

\* Variant: a section that is never closed runs to the end of the response.
MetadataSpanOpenEnded(content) ==
  LET s == IndexOfFrom(content, MetadataStart, 1)
      e == IF s = 0 THEN 0 ELSE IndexOfFrom(content, MetadataEnd, s + Len(MetadataStart))
  IN  IF s = 0 THEN [from |-> 0, to |-> 0]
      ELSE IF e = 0 THEN [from |-> s, to |-> Len(content) + Len(MetadataEnd)]
      ELSE [from |-> s, to |-> e + Len(MetadataEnd) - 1]

\* /---RECIPE_METADATA---([\s\S]*?)---END_METADATA---/ : the first start marker and
\* the first end marker after it; from = to = 0 when the expression does not match.
MetadataSpan(content) ==
  LET s == IndexOfFrom(content, MetadataStart, 1)
      e == IF s = 0 THEN 0 ELSE IndexOfFrom(content, MetadataEnd, s + Len(MetadataStart))
  IN  IF e = 0 THEN [from |-> 0, to |-> 0] ELSE [from |-> s, to |-> e + Len(MetadataEnd) - 1]

MetadataSection(content) ==
  LET span == MetadataSpan(content)
  IN  SubSeq(content, span.from + Len(MetadataStart), span.to - Len(MetadataEnd))

\* First index >= i whose character is not white space, Len(s)+1 when there is none.
RECURSIVE SkipSpace(_, _)
SkipSpace(s, i) == IF i <= Len(s) /\ IsSpace(Char(s, i)) THEN SkipSpace(s, i + 1) ELSE i

\* Last index of the run of characters "." matches that starts at i.
RECURSIVE LineEnd(_, _)
LineEnd(s, i) ==
  IF i + 1 <= Len(s) /\ ~IsLineTerminator(Char(s, i + 1)) THEN LineEnd(s, i + 1) ELSE i

RECURSIVE DigitsEnd(_, _)
DigitsEnd(s, i) == IF i + 1 <= Len(s) /\ IsDigit(Char(s, i + 1)) THEN DigitsEnd(s, i + 1) ELSE i

\* /LABEL\s*(.+)/ tried at an occurrence p of the label: \s* takes the longest run of
\* white space and gives characters back until "." can match one; the result is the
\* index where the capture starts, 0 when the expression does not match at p.
LineCaptureStart(s, label, p) ==
  LET q == p + Len(label)
      r == SkipSpace(s, q)
      back == {i \in q..(r - 1) : ~IsLineTerminator(Char(s, i))}
  IN  IF r <= Len(s) THEN r
      ELSE IF back = {} THEN 0
      ELSE CHOOSE i \in back : \A j \in back : i >= j

\* section.match(/LABEL\s*(.+)/)[1].trim(), undefined without a match.
MatchLine(section, label) ==
  LET hits == {p \in 1..Len(section) :
                 StartsWithAt(section, label, p) /\ LineCaptureStart(section, label, p) # 0}
  IN  IF hits = {} THEN None
      ELSE LET p == CHOOSE i \in hits : \A j \in hits : i <= j
               c == LineCaptureStart(section, label, p)
           IN  Some(Trim(SubSeq(section, c, LineEnd(section, c))))

RECURSIVE parseInt(_)
parseInt(digits) ==
  IF digits = "" THEN 0
  ELSE 10 * parseInt(SubSeq(digits, 1, Len(digits) - 1))
       + DigitValue[Char(digits, Len(digits))]

DigitsCaptureStart(s, label, p) ==
  LET r == SkipSpace(s, p + Len(label))
  IN  IF r <= Len(s) /\ IsDigit(Char(s, r)) THEN r ELSE 0

\* parseInt(section.match(/LABEL\s*(\d+)/)[1]), undefined without a match.
MatchNumber(section, label) ==
  LET hits == {p \in 1..Len(section) :
                 StartsWithAt(section, label, p) /\ DigitsCaptureStart(section, label, p) # 0}
  IN  IF hits = {} THEN None
      ELSE LET p == CHOOSE i \in hits : \A j \in hits : i <= j
               c == DigitsCaptureStart(section, label, p)
           IN  Some(parseInt(SubSeq(section, c, DigitsEnd(section, c))))

\* Variant: the metadata section is left in the recipe data.
StripMetadataKeepsBlock(content) == Trim(content)

\* extractedContent.replace(/---RECIPE_METADATA---[\s\S]*?---END_METADATA---\s*/, "").trim()
StripMetadata(content) ==
  LET span == MetadataSpan(content)
  IN  Trim(SubSeq(content, 1, span.from - 1)
           \o SubSeq(content, SkipSpace(content, span.to + 1), Len(content)))

NoMetadata ==
  [recipeName |-> None, timeMinutes |-> None, servesPeople |-> None, makesItems |-> None]

\* The metadata fields and the cleaned recipe text of a response that is a recipe.
ParseMetadata(extractedContent) ==
  IF MetadataSpan(extractedContent).from = 0
  THEN [meta |-> NoMetadata, cleanedRecipeData |-> extractedContent]
  ELSE LET section == MetadataSection(extractedContent)
       IN  [meta |-> [recipeName   |-> MatchLine(section, "NAME:"),
                      timeMinutes  |-> MatchNumber(section, "TIME_MINUTES:"),
                      servesPeople |-> MatchNumber(section, "SERVES_PEOPLE:"),
                      makesItems   |-> MatchLine(section, "MAKES_ITEMS:")],
            cleanedRecipeData |-> StripMetadata(extractedContent)]

(***************************************************************************)
(* The record threaded through the steps.  A step's return value is the   *)
(* next step's inputData; a field the step does not return is undefined.  *)
(***************************************************************************)
Blank ==
  [route |-> None, result |-> None, isSocial |-> None, provider |-> None,
   displayName |-> None, isUrl |-> None, originalUrl |-> None, language |-> None,
   units |-> None, htmlContent |-> None, cleanedContent |-> None, imageUrl |-> None,
   unitsLength |-> None, unitsLiquid |-> None, unitsWeight |-> None,
   unitsTemperature |-> None, recipeData |-> None, isRecipe |-> None,
   recipeName |-> None, timeMinutes |-> None, servesPeople |-> None,
   makesItems |-> None, languageCode |-> None]

\* The object literal { f1, f2, ... } built from the destructured inputData.
Pick(d, fields) == [f \in DOMAIN Blank |-> IF f \in fields THEN d[f] ELSE None]

IsTrue(o) == o = Some(TRUE)

RouteFields ==
  {"route", "result", "isSocial", "provider", "isUrl", "originalUrl", "language", "units"}
ContentFields == RouteFields \cup {"cleanedContent", "imageUrl"}
UnitFields == {"unitsLength", "unitsLiquid", "unitsWeight", "unitsTemperature"}

\* Variant: the steps short-circuit on the error route only.
SkipsStageErrorOnly(d) == d.route = Some("error")

\* "if (route === 'social' || route === 'error')", the first test of every step
\* after the router.
SkipsStage(d) == d.route = Some("social") \/ d.route = Some("error")

(***************************************************************************)
(* socialProviderCheckStep                                                *)
(***************************************************************************)
\* "if (!inputData?.input) throw new Error('Input data not found')"
InputMissing(in) == ~TruthyStr(in.input)

\* Variant: the step reports the input as originalUrl even when it is not a URL.
socialProviderCheckReturnKeepsUrl(in) ==
  LET input       == in.input[1]
      socialCheck == detectSocialProvider(input)
  IN  IF ~isValidUrl(input)
      THEN [Blank EXCEPT !.result = Some("this is not a url"), !.isSocial = Some(FALSE),
                         !.isUrl = Some(FALSE), !.originalUrl = Some(input),
                         !.language = in.language, !.units = in.units]
      ELSE IF socialCheck.isSocial
      THEN [Blank EXCEPT !.result = Some("route_to_social"), !.isSocial = Some(TRUE),
                         !.provider = socialCheck.provider,
                         !.displayName = socialCheck.displayName,
                         !.isUrl = Some(TRUE), !.originalUrl = Some(input),
                         !.language = in.language, !.units = in.units]
      ELSE [Blank EXCEPT !.result = Some("route_to_normal"), !.isSocial = Some(FALSE),
                         !.isUrl = Some(TRUE), !.originalUrl = Some(input),
                         !.language = in.language, !.units = in.units]

socialProviderCheckReturn(in) ==
  LET input       == in.input[1]
      socialCheck == detectSocialProvider(input)
  IN  IF ~isValidUrl(input)
      THEN [Blank EXCEPT !.result = Some("this is not a url"), !.isSocial = Some(FALSE),
                         !.isUrl = Some(FALSE), !.originalUrl = None,
                         !.language = in.language, !.units = in.units]
      ELSE IF socialCheck.isSocial
      THEN [Blank EXCEPT !.result = Some("route_to_social"), !.isSocial = Some(TRUE),
                         !.provider = socialCheck.provider,
                         !.displayName = socialCheck.displayName,
                         !.isUrl = Some(TRUE), !.originalUrl = Some(input),
                         !.language = in.language, !.units = in.units]
      ELSE [Blank EXCEPT !.result = Some("route_to_normal"), !.isSocial = Some(FALSE),
                         !.isUrl = Some(TRUE), !.originalUrl = Some(input),
                         !.language = in.language, !.units = in.units]

(***************************************************************************)
(* routerStep                                                             *)
(***************************************************************************)
\* Variant: the normal branch of the router does not hand on originalUrl.
routerReturnDropsUrl(d) ==
  LET carried == Pick(d, {"originalUrl", "language", "units"})
  IN  IF /\ d.result = Some("route_to_social")
         /\ IsTrue(d.isSocial)
         /\ TruthyStr(d.provider)
         /\ TruthyStr(d.displayName)
      THEN [carried EXCEPT !.route = Some("social"),
                           !.result = Some("this url is from " \o d.displayName[1]),
                           !.isSocial = Some(TRUE), !.provider = d.displayName,
                           !.isUrl = Some(TRUE)]
      ELSE IF d.result = Some("this is not a url")
      THEN [carried EXCEPT !.route = Some("error"), !.result = Some("this is not a url"),
                           !.isSocial = Some(FALSE), !.isUrl = Some(FALSE)]
      ELSE IF d.result = Some("route_to_normal") /\ IsTrue(d.isUrl) /\ TruthyStr(d.originalUrl)
      THEN [carried EXCEPT !.route = Some("normal"), !.result = Some("continue_processing"),
                           !.isSocial = Some(FALSE), !.isUrl = Some(TRUE),
                           !.originalUrl = None]
      ELSE [carried EXCEPT !.route = Some("error"), !.result = Some("Unknown routing error"),
                           !.isSocial = Some(FALSE), !.isUrl = Some(FALSE)]

routerReturn(d) ==
  LET carried == Pick(d, {"originalUrl", "language", "units"})
  IN  IF /\ d.result = Some("route_to_social")
         /\ IsTrue(d.isSocial)
         /\ TruthyStr(d.provider)
         /\ TruthyStr(d.displayName)
      THEN [carried EXCEPT !.route = Some("social"),
                           !.result = Some("this url is from " \o d.displayName[1]),
                           !.isSocial = Some(TRUE), !.provider = d.displayName,
                           !.isUrl = Some(TRUE)]
      ELSE IF d.result = Some("this is not a url")
      THEN [carried EXCEPT !.route = Some("error"), !.result = Some("this is not a url"),
                           !.isSocial = Some(FALSE), !.isUrl = Some(FALSE)]
      ELSE IF d.result = Some("route_to_normal") /\ IsTrue(d.isUrl) /\ TruthyStr(d.originalUrl)
      THEN [carried EXCEPT !.route = Some("normal"), !.result = Some("continue_processing"),
                           !.isSocial = Some(FALSE), !.isUrl = Some(TRUE)]
      ELSE [carried EXCEPT !.route = Some("error"), !.result = Some("Unknown routing error"),
                           !.isSocial = Some(FALSE), !.isUrl = Some(FALSE)]

(***************************************************************************)
(* processUrlStep                                                         *)
(***************************************************************************)
\* Variant: the pass-through forgets the language.
processUrlSkipDropsLanguage(d) == Pick(d, RouteFields \ {"language"})

processUrlSkip(d) == Pick(d, RouteFields)

\* "if (route === 'normal' && originalUrl)": the step calls fetch.
processUrlFetches(d) == d.route = Some("normal") /\ TruthyStr(d.originalUrl)

processUrlFallback(d) ==
  [Pick(d, RouteFields) EXCEPT !.route = Some("error"),
                               !.result = Some("Invalid state for HTML fetching")]

\* Variant: only server errors count as failures.
ResponseOkBelow500(r) == r.status \in 200..499

\* response.ok
ResponseOk(r) == r.status \in 200..299

\* What the step returns once the fetch has settled with outcome r.
processUrlSettled(d, r) ==
  IF r.kind = "throw"
  THEN [Pick(d, RouteFields) EXCEPT
          !.route = Some("error"), !.result = Some("Error fetching URL: " \o r.message)]
  ELSE IF ~ResponseOk(r)
  THEN [Pick(d, RouteFields) EXCEPT
          !.route = Some("error"),
          !.result = Some("Failed to fetch URL: " \o ToString(r.status) \o " " \o r.statusText)]
  ELSE [Pick(d, RouteFields) EXCEPT
          !.result = Some("html_fetched"), !.htmlContent = Some(r.body)]

(***************************************************************************)
(* cleanAndConvertStep                                                    *)
(***************************************************************************)
cleanAndConvertSkip(d) == Pick(d, RouteFields \cup {"imageUrl"})

\* "if (route === 'normal' && htmlContent)": the step calls cleanHtml.
cleanAndConvertCleans(d) == d.route = Some("normal") /\ TruthyStr(d.htmlContent)

\* What the step returns when cleanHtml returned (kind "ok") or threw.
cleanAndConvertCleaned(d, c) ==
  IF c.kind = "throw"
  THEN [Pick(d, RouteFields \cup {"imageUrl"}) EXCEPT
          !.route = Some("error"), !.result = Some("Error cleaning HTML: " \o c.message)]
  ELSE [Pick(d, RouteFields \cup {"imageUrl"}) EXCEPT
          !.result = Some("html_cleaned"), !.cleanedContent = Some(c.markdown)]

(***************************************************************************)
(* unitParsingStep                                                        *)
(***************************************************************************)
\* JSON null, as the inner fallback writes it when no units were requested.
JsNull == "null"

unitParsingSkip(d) == Pick(d, ContentFields)

\* Variant: the agent steps test the route only.
HasContentOrNot(d) == d.route = Some("normal")

\* "if (route === 'normal' && cleanedContent)"
HasContent(d) == d.route = Some("normal") /\ TruthyStr(d.cleanedContent)

\* units ? parseUnitsCategory(units, category) : absent
CategoryOrAbsent(units, category, absent) ==
  IF TruthyStr(units) THEN parseUnitsCategory(units[1], category) ELSE absent

WithUnits(d, result, absent) ==
  [Pick(d, ContentFields) EXCEPT
     !.result = Some(result),
     !.unitsLength = CategoryOrAbsent(d.units, "length", absent),
     !.unitsLiquid = CategoryOrAbsent(d.units, "liquid", absent),
     !.unitsWeight = CategoryOrAbsent(d.units, "weight", absent),
     !.unitsTemperature = CategoryOrAbsent(d.units, "temperature", absent)]

\* Variant: the outer catch reports the failure on the error route.
unitParsingFallbackOnErrorRoute(d) ==
  [WithUnits(d, "units_parsed_fallback", None) EXCEPT !.route = Some("error")]

\* The outer catch: the agent is missing, generate rejected, or reading the parsed
\* value threw.
unitParsingFallback(d) == WithUnits(d, "units_parsed_fallback", None)

\* What the step returns once agent.generate has settled with outcome a.
unitParsingSettled(d, a) ==
  IF a.kind = "throw" THEN unitParsingFallback(d)
  ELSE IF a.json = "invalid" THEN WithUnits(d, "units_parsed", Some(JsNull))
  ELSE IF a.json = "null" THEN unitParsingFallback(d)
  ELSE [Pick(d, ContentFields) EXCEPT
          !.result = Some("units_parsed"),
          !.unitsLength = a.value.unitsLength, !.unitsLiquid = a.value.unitsLiquid,
          !.unitsWeight = a.value.unitsWeight,
          !.unitsTemperature = a.value.unitsTemperature]

(***************************************************************************)
(* imageExtractionStep                                                    *)
(***************************************************************************)
imageExtractionSkip(d) == Pick(d, ContentFields \cup UnitFields)

\* Variant: the catch returns the record without the resolved units.
imageExtractionFailedDropsUnits(d) == [Pick(d, ContentFields) EXCEPT !.imageUrl = None]

\* The catch: the agent is missing or generate rejected.
imageExtractionFailed(d) ==
  [Pick(d, ContentFields \cup UnitFields) EXCEPT !.imageUrl = None]

imageExtractionSettled(d, a) ==
  IF a.kind = "throw" THEN imageExtractionFailed(d)
  ELSE LET extractedImageUrl == Trim(a.text)
           imageUrl == IF extractedImageUrl # "no image found"
                       THEN Some(extractedImageUrl) ELSE None
       IN  [Pick(d, ContentFields \cup UnitFields) EXCEPT
              !.result = Some(IF TruthyStr(imageUrl) THEN "image_extracted"
                              ELSE "no_image_found"),
              !.imageUrl = imageUrl]

(***************************************************************************)
(* recipeExtractionStep                                                   *)
(***************************************************************************)
RecipeSkipFields == RouteFields \cup {"imageUrl"}

\* Variant: the pass-through hard-codes isSocial: false beside isRecipe: false.
recipeExtractionSkipResetsSocial(d) ==
  [Pick(d, RecipeSkipFields) EXCEPT
     !.isRecipe = Some(FALSE), !.isSocial = Some(FALSE), !.languageCode = None]

recipeExtractionSkip(d) ==
  [Pick(d, RecipeSkipFields) EXCEPT !.isRecipe = Some(FALSE), !.languageCode = None]

\* Variant: the catch returns the record without the image URL.
recipeExtractionFailedDropsImage(d, message) ==
  [Pick(d, RouteFields) EXCEPT
     !.route = Some("error"), !.result = Some("Error extracting recipe: " \o message),
     !.isRecipe = Some(FALSE), !.languageCode = None]

\* The catch: the agent is missing or generate rejected.
recipeExtractionFailed(d, message) ==
  [Pick(d, RecipeSkipFields) EXCEPT
     !.route = Some("error"), !.result = Some("Error extracting recipe: " \o message),
     !.isRecipe = Some(FALSE), !.languageCode = None]

recipeExtractionSettled(d, a) ==
  IF a.kind = "throw" THEN recipeExtractionFailed(d, a.message)
  ELSE LET extractedContent == Trim(a.text)
           isRecipe     == extractedContent # NotARecipe
           languageCode == IF TruthyStr(d.language) THEN getLanguageISOCode(d.language[1])
                           ELSE None
           parsed       == IF isRecipe THEN ParseMetadata(extractedContent)
                           ELSE [meta |-> NoMetadata, cleanedRecipeData |-> extractedContent]
       IN  [Pick(d, RecipeSkipFields \cup UnitFields) EXCEPT
              !.result = Some(extractedContent),
              !.recipeData = IF isRecipe THEN Some(parsed.cleanedRecipeData) ELSE None,
              !.isRecipe = Some(isRecipe),
              !.recipeName = parsed.meta.recipeName,
              !.timeMinutes = parsed.meta.timeMinutes,
              !.servesPeople = parsed.meta.servesPeople,
              !.makesItems = parsed.meta.makesItems,
              !.languageCode = languageCode]

(***************************************************************************)
(* endStep                                                                *)
(***************************************************************************)
\* Variant: the step spreads inputData, so route stays, and mixes up two dimensions.
endReturnSpread(d) ==
  [route |-> d.route, result |-> d.result, recipeData |-> d.recipeData,
   imageUrl |-> d.imageUrl, isUrl |-> d.isUrl, isRecipe |-> d.isRecipe,
   isSocial |-> d.isSocial, provider |-> d.provider, originalUrl |-> d.originalUrl,
   recipeName |-> d.recipeName, timeMinutes |-> d.timeMinutes,
   servesPeople |-> d.servesPeople, makesItems |-> d.makesItems,
   language |-> d.language, languageCode |-> d.languageCode,
   units |-> [length |-> d.unitsLiquid, liquid |-> d.unitsLength,
              weight |-> d.unitsWeight, temperature |-> d.unitsTemperature]]

endReturn(d) ==
  [result |-> d.result, recipeData |-> d.recipeData, imageUrl |-> d.imageUrl,
   isUrl |-> d.isUrl, isRecipe |-> d.isRecipe, isSocial |-> d.isSocial,
   provider |-> d.provider, originalUrl |-> d.originalUrl,
   recipeName |-> d.recipeName, timeMinutes |-> d.timeMinutes,
   servesPeople |-> d.servesPeople, makesItems |-> d.makesItems,
   language |-> d.language, languageCode |-> d.languageCode,
   units |-> [length |-> d.unitsLength, liquid |-> d.unitsLiquid,
              weight |-> d.unitsWeight, temperature |-> d.unitsTemperature]]

(***************************************************************************)
(* The workflow: createWorkflow(...).then(...) runs the steps one after   *)
(* the other, each on the previous step's return value.  A step that      *)
(* throws ends the run with status "failed"; endStep's return value is    *)
(* the result of a run with status "success".                             *)
(***************************************************************************)
workflowSteps ==
  <<"social-provider-check", "router", "process-url", "clean-and-convert",
    "unit-parsing", "image-extraction", "recipe-extraction", "end">>

StepAfter(id) ==
  LET i == CHOOSE k \in 1..Len(workflowSteps) : workflowSteps[k] = id
  IN  IF i = Len(workflowSteps) THEN "success" ELSE workflowSteps[i + 1]

\* The agents a Mastra instance may have registered under the names the steps ask for.
AgentNames == {"unit-parser", "image-extractor", "recipe-extractor"}

(***************************************************************************)
(* The environment: workflow inputs, and what the fetch, the converter    *)
(* and the agents may answer.                                             *)
(***************************************************************************)
Languages == {None, Some("Spanish"), Some("Klingon")}

UnitsRequests == {None, Some("metric"), Some("cups fahrenheit")}

FetchOutcomes ==
  {[kind |-> "response", status |-> 200, statusText |-> "OK", body |-> b, message |-> ""] :
     b \in {"", "<h1>Pancakes</h1><img src=\"p.jpg\" alt=\"stack\">"}}
  \cup {[kind |-> "response", status |-> 404, statusText |-> "Not Found", body |-> "",
         message |-> ""],
        [kind |-> "response", status |-> 500, statusText |-> "Internal Server Error",
         body |-> "", message |-> ""],
        [kind |-> "throw", status |-> 0, statusText |-> "", body |-> "",
         message |-> "fetch failed"]}

\* cleanHtml(htmlContent, {..., convertToMarkdown: true}) returns markdown or throws.
CleanOutcomes ==
  {[kind |-> "ok", markdown |-> m, message |-> ""] :
     m \in {"", "# Pancakes\n\n![stack](p.jpg)"}}
  \cup {[kind |-> "throw", markdown |-> "", message |-> "conversion failed"]}

NoUnitsValue ==
  [unitsLength |-> None, unitsLiquid |-> None, unitsWeight |-> None,
   unitsTemperature |-> None]

\* agent.generate of the unit parser: it rejects, or its text is not JSON, is the
\* JSON value null, or is a JSON object.
UnitAgentOutcomes ==
  {[kind |-> "throw", json |-> "", value |-> NoUnitsValue],
   [kind |-> "text", json |-> "invalid", value |-> NoUnitsValue],
   [kind |-> "text", json |-> "null", value |-> NoUnitsValue],
   [kind |-> "text", json |-> "object",
    value |-> [unitsLength |-> Some("cm"), unitsLiquid |-> Some("ml"),
               unitsWeight |-> Some("grams"), unitsTemperature |-> Some(JsNull)]]}

ImageAgentOutcomes ==
  {[kind |-> "throw", text |-> "", message |-> "image model unavailable"],
   [kind |-> "text", text |-> "no image found", message |-> ""],
   [kind |-> "text", text |-> " https://example.com/p.jpg\n", message |-> ""]}

\* What a recipe page holds: the values of the four metadata lines the workflow
\* reads, and the recipe body.
RecipeFacts ==
  {[name |-> "Pancakes", time |-> 20, serves |-> 4, makes |-> "N/A",
    body |-> "# Pancakes\nMix and fry."],
   [name |-> "Tomato Soup", time |-> 5, serves |-> 12, makes |-> "6 bowls",
    body |-> "# Tomato Soup\n**Serves:** 12 people\n![soup](s.jpg)"]}

\* The metadata section in the exact format the agent is instructed to start with.
MetadataBlock(r) ==
  MetadataStart \o "\nNAME: " \o r.name
    \o "\nTIME_MINUTES: " \o ToString(r.time)
    \o "\nSERVES_PEOPLE: " \o ToString(r.serves)
    \o "\nMAKES_ITEMS: " \o r.makes
    \o "\nLANGUAGE: N/A\nUNITS_LENGTH: N/A\nUNITS_LIQUID: N/A\nUNITS_WEIGHT: N/A\n"
    \o MetadataEnd

\* "start your response with a structured metadata section ... Then follow with the
\* full recipe in markdown format".
WellFormedResponse(r) == MetadataBlock(r) \o "\n\n" \o r.body

\* Responses that do not follow the format: no metadata section at all, a section
\* that is never closed, and one that is never opened.
UnformattedResponses ==
  {"# Soup\nBoil water.",
   "---RECIPE_METADATA---\nNAME: Stew\nTIME_MINUTES: 90\n# Stew\nSimmer.",
   "NAME: Stew\nTIME_MINUTES: 90\n---END_METADATA---\n# Stew\nSimmer.",
   "This is not a recipe."}

\* agent.generate of the recipe extractor: it rejects, or it resolves with a text.
RecipeAgentOutcomes ==
  {[kind |-> "throw", text |-> "", message |-> "model overloaded"],
   [kind |-> "text", text |-> "this is not a recipe\n", message |-> ""]}
  \cup {[kind |-> "text", text |-> t, message |-> ""] : t \in UnformattedResponses}
  \cup {[kind |-> "text", text |-> WellFormedResponse(r), message |-> ""] : r \in RecipeFacts}

(***************************************************************************)
(* cleanHtml: the string-based sanitizer.  Each regular expression is     *)
(* modelled by where it matches: a global replace scans from the left,    *)
(* and after a match goes on behind it.                                   *)
(***************************************************************************)
TAGS_TO_REMOVE == <<"script", "style", "noscript">>

IsAlnum(c) == IsAlpha(c) \/ IsDigit(c)

\* The flag "i": sub occurs in s at i, letter case ignored.
StartsWithAtCI(s, sub, i) ==
  /\ i >= 1
  /\ i + Len(sub) - 1 <= Len(s)
  /\ \A k \in 1..Len(sub) : LowerChar(Char(s, i + k - 1)) = LowerChar(Char(sub, k))

\* Least index >= from at which sub occurs in s, letter case ignored; 0 if none.
IndexOfFromCI(s, sub, from) ==
  LET hits == {i \in from..(Len(s) - Len(sub) + 1) : StartsWithAtCI(s, sub, i)}
  IN  IF hits = {} THEN 0 ELSE CHOOSE i \in hits : \A j \in hits : i <= j

\* [a-zA-Z0-9]* from p: the index of the last character of the run (p - 1 if empty).
NameEnd(s, p) ==
  LET stops == {i \in p..Len(s) : ~IsAlnum(Char(s, i))}
  IN  IF stops = {} THEN Len(s) ELSE (CHOOSE i \in stops : \A j \in stops : i <= j) - 1

\* /<tag[^>]*>.*?<\/tag>/gis at p: the index of the match's last character, 0 when
\* the expression does not match at p.
PairedEnd(s, p, tagName) ==
  IF ~StartsWithAtCI(s, "<" \o tagName, p) THEN 0
  ELSE LET g == FirstStop(s, p + 1 + Len(tagName), {">"})
           e == IF g > Len(s) THEN 0
                ELSE IndexOfFromCI(s, "</" \o tagName \o ">", g + 1)
       IN  IF e = 0 THEN 0 ELSE e + Len(tagName) + 2

\* /<tag[^>]*\/>/gi at p.
SelfClosingEnd(s, p, tagName) ==
  IF ~StartsWithAtCI(s, "<" \o tagName, p) THEN 0
  ELSE LET g == FirstStop(s, p + 1 + Len(tagName), {">"})
       IN  IF g <= Len(s) /\ g - 1 >= p + 1 + Len(tagName) /\ Char(s, g - 1) = "/"
           THEN g ELSE 0

\* /<!--[\s\S]*?-->/g at p.
CommentEnd(s, p) ==
  IF ~StartsWithAt(s, "<!--", p) THEN 0
  ELSE LET e == IndexOfFrom(s, "-->", p + 4)
       IN  IF e = 0 THEN 0 ELSE e + 2

\* The alternatives of the negative lookahead (?!img|br|hr|...).
EmptyExemptPrefixes ==
  {"img", "br", "hr", "input", "meta", "link", "area", "base", "col", "embed", "source",
   "track", "wbr"}

\* /<(?!img|br|...)([a-zA-Z][a-zA-Z0-9]*)\b[^>]*>\s*<\/\1>/gi at p.
EmptyElementEnd(s, p) ==
  IF \/ Char(s, p) # "<"
     \/ p + 1 > Len(s)
     \/ ~IsAlpha(Char(s, p + 1))
     \/ \E v \in EmptyExemptPrefixes : StartsWithAtCI(s, v, p + 1)
  THEN 0
  ELSE LET ne   == NameEnd(s, p + 1)
           name == SubSeq(s, p + 1, ne)
           g    == FirstStop(s, ne + 1, {">"})
           c    == SkipSpace(s, g + 1)
       IN  IF (ne < Len(s) /\ Char(s, ne + 1) = "_") \/ g > Len(s) THEN 0
           ELSE IF StartsWithAtCI(s, "</" \o name \o ">", c) THEN c + Len(name) + 2
           ELSE 0

MatchEnd(kind, s, p, tagName) ==
  CASE kind = "paired"      -> PairedEnd(s, p, tagName)
    [] kind = "selfClosing" -> SelfClosingEnd(s, p, tagName)
    [] kind = "comment"     -> CommentEnd(s, p)
    [] kind = "empty"       -> EmptyElementEnd(s, p)

MatchKinds == {"paired", "selfClosing", "comment", "empty"}

\* s.replace(regex, "") with the flag "g", from index p on.  Every one of the
\* expressions starts with "<": q is the next place where one can match.
RemoveAll[kind \in MatchKinds, s \in STRING, p \in Nat, tagName \in STRING] ==
  LET q == FirstStop(s, p, {"<"})
  IN  IF q > Len(s) THEN SubSeq(s, p, Len(s))
      ELSE LET e == MatchEnd(kind, s, q, tagName)
           IN  IF e = 0 THEN SubSeq(s, p, q) \o RemoveAll[kind, s, q + 1, tagName]
               ELSE SubSeq(s, p, q - 1) \o RemoveAll[kind, s, e + 1, tagName]

\* One round of the forEach: the paired form, then the self-closing form.
RemoveTag(html, tagName) ==
  RemoveAll["selfClosing", RemoveAll["paired", html, 1, tagName], 1, tagName]

removeUnwantedTags(html) ==
  RemoveTag(RemoveTag(RemoveTag(html, TAGS_TO_REMOVE[1]), TAGS_TO_REMOVE[2]),
            TAGS_TO_REMOVE[3])

removeHtmlComments(html) == RemoveAll["comment", html, 1, ""]

\* /<([a-zA-Z][a-zA-Z0-9]*)[^>]*>/g at p: the index of the closing ">", 0 if no match.
TagEnd(s, p) ==
  IF Char(s, p) = "<" /\ p < Len(s) /\ IsAlpha(Char(s, p + 1))
  THEN LET g == FirstStop(s, NameEnd(s, p + 1) + 1, {">"})
       IN  IF g > Len(s) THEN 0 ELSE g
  ELSE 0

Quotes == {"\"", "'"}

\* /name\s*=\s*["']([^"']*)["']/i tried at q: the indices of the opening and of the
\* closing quote, <<0, 0>> when the expression does not match at q.
AttributeAt(match, name, q) ==
  IF ~StartsWithAtCI(match, name, q) THEN <<0, 0>>
  ELSE LET a == SkipSpace(match, q + Len(name))
           b == SkipSpace(match, a + 1)
           c == FirstStop(match, b + 1, Quotes)
       IN  IF /\ a <= Len(match) /\ Char(match, a) = "="
              /\ b <= Len(match) /\ Char(match, b) \in Quotes
              /\ c <= Len(match)
           THEN <<b, c>> ELSE <<0, 0>>

\* match.match(/name\s*=\s*["']([^"']*)["']/i): the capture of the first match.
AttributeValue(match, name) ==
  LET hits == {q \in 1..Len(match) : AttributeAt(match, name, q) # <<0, 0>>}
  IN  IF hits = {} THEN None
      ELSE LET at == AttributeAt(match, name, CHOOSE q \in hits : \A r \in hits : q <= r)
           IN  Some(SubSeq(match, at[1] + 1, at[2] - 1))

\* The replacement callback of removeAllAttributes.
StripTag[match \in STRING, tagName \in STRING] ==
  LET srcMatch   == AttributeValue(match, "src")
      altMatch   == AttributeValue(match, "alt")
      attributes == (IF srcMatch # None THEN " src=\"" \o srcMatch[1] \o "\"" ELSE "")
                    \o (IF altMatch # None THEN " alt=\"" \o altMatch[1] \o "\"" ELSE "")
  IN  IF Len(tagName) = 3 /\ StartsWithAtCI(tagName, "img", 1) /\ attributes # ""
      THEN "<" \o tagName \o attributes \o " />"
      ELSE "<" \o tagName \o ">"

\* html.replace(/<([a-zA-Z][a-zA-Z0-9]*)[^>]*>/g, callback), from index p on.
ReplaceTags[s \in STRING, p \in Nat] ==
  LET q == FirstStop(s, p, {"<"})
  IN  IF q > Len(s) THEN SubSeq(s, p, Len(s))
      ELSE LET g == TagEnd(s, q)
           IN  IF g = 0 THEN SubSeq(s, p, q) \o ReplaceTags[s, q + 1]
               ELSE SubSeq(s, p, q - 1)
                    \o StripTag[SubSeq(s, q, g), SubSeq(s, q + 1, NameEnd(s, q + 1))]
                    \o ReplaceTags[s, g + 1]

removeAllAttributes(html) == ReplaceTags[html, 1]

\* .replace(/\s+/g, " ")
CollapseSpace[s \in STRING, p \in Nat] ==
  LET q == FirstStop(s, p, {" ", "\t", "\n", "\r"})
  IN  IF q > Len(s) THEN SubSeq(s, p, Len(s))
      ELSE SubSeq(s, p, q - 1) \o " " \o CollapseSpace[s, SkipSpace(s, q)]

\* .replace(/>\s+</g, "><")
CloseGaps[s \in STRING, p \in Nat] ==
  LET q == FirstStop(s, p, {">"})
      c == SkipSpace(s, q + 1)
  IN  IF q > Len(s) THEN SubSeq(s, p, Len(s))
      ELSE IF c > q + 1 /\ c <= Len(s) /\ Char(s, c) = "<"
      THEN SubSeq(s, p, q - 1) \o "><" \o CloseGaps[s, c + 1]
      ELSE SubSeq(s, p, q) \o CloseGaps[s, q + 1]

\* .trim()
Trimmed[s \in STRING] == Trim(s)

normalizeWhitespace_(html) == Trimmed[CloseGaps[CollapseSpace[html, 1], 1]]

\* The body of the do-while: the same replace, twice.
EmptyPass(s) == RemoveAll["empty", RemoveAll["empty", s, 1, ""], 1, ""]

\* do { ... } while (result.length < previousLength)
removeEmptyElements_[html \in STRING] ==
  LET result == EmptyPass(html)
  IN  IF Len(result) < Len(html) THEN removeEmptyElements_[result] ELSE result

\* CleanHtmlOptions without convertToMarkdown: every combination of the four flags.
OptionSets ==
  [removeAttributes : BOOLEAN, removeEmptyElements : BOOLEAN,
   normalizeWhitespace : BOOLEAN, removeComments : BOOLEAN]

\* const { removeAttributes = true, removeEmptyElements = true, ... } = options
DefaultOptions ==
  [removeAttributes |-> TRUE, removeEmptyElements |-> TRUE, normalizeWhitespace |-> TRUE,
   removeComments |-> TRUE]

\* Steps 1 to 5 of cleanHtml: each assigns cleanedHtml from its previous value.
Step1[cleanedHtml \in STRING] == removeUnwantedTags(cleanedHtml)

Step2[cleanedHtml \in STRING, options \in OptionSets] ==
  IF options.removeComments THEN removeHtmlComments(cleanedHtml) ELSE cleanedHtml

Step3[cleanedHtml \in STRING, options \in OptionSets] ==
  IF options.removeAttributes THEN removeAllAttributes(cleanedHtml) ELSE cleanedHtml

Step4[cleanedHtml \in STRING, options \in OptionSets] ==
  IF options.normalizeWhitespace THEN normalizeWhitespace_(cleanedHtml) ELSE cleanedHtml

Step5[cleanedHtml \in STRING, options \in OptionSets] ==
  IF options.removeEmptyElements THEN removeEmptyElements_[cleanedHtml] ELSE cleanedHtml

\* cleanHtml(html, options) with convertToMarkdown false.
cleanHtml(html, options) ==
  Step5[Step4[Step3[Step2[Step1[html], options], options], options], options]

\* No utility function has been called directly.
NoCleanerCall == [html |-> "", options |-> DefaultOptions, out |-> None, again |-> None]

NoUnitsCall == [units |-> "", category |-> "length", result |-> None, called |-> FALSE]

NoLanguageCall == [language |-> "", result |-> None, called |-> FALSE]

NoMetadataCall == [extractedContent |-> "", result |-> None]

NoEmptyLoop ==
  [html |-> "", result |-> "", previousLength |-> None, iterations |-> 0,
   returned |-> FALSE]

(***************************************************************************)
(* recipeExtractorHandler: POST /api/recipe-extractor.  The handler        *)
(* authenticates the caller, reads the JSON body, starts one workflow run  *)
(* and answers with the run's result; the persisting version also saves    *)
(* the result of a successful run.                                         *)
(***************************************************************************)
\* The fields of RecipeExtractorRequest that carry a unit, in the order
\* constructUnitsString pushes them.
unitParameters == <<"weightUnit", "liquidUnit", "lengthUnit", "temperatureUnit">>

\* units.join(" ") of the parameters from index k on.
RECURSIVE JoinFrom(_, _)
JoinFrom(req, k) ==
  IF k > Len(unitParameters) THEN <<>>
  ELSE IF TruthyStr(req[unitParameters[k]])
  THEN <<req[unitParameters[k]][1]>> \o JoinFrom(req, k + 1)
  ELSE JoinFrom(req, k + 1)

RECURSIVE Join(_, _)
Join(parts, separator) ==
  IF Len(parts) = 0 THEN ""
  ELSE IF Len(parts) = 1 THEN parts[1]
  ELSE parts[1] \o separator \o Join(Tail(parts), separator)

constructUnitsString(req) ==
  LET units == JoinFrom(req, 1)
  IN  IF Len(units) > 0 THEN Some(Join(units, " ")) ELSE None

\* authHeader.split(" "): the pieces between the blanks.
RECURSIVE Split(_)
Split(s) ==
  LET i == IndexOfFrom(s, " ", 1)
  IN  IF i = 0 THEN <<s>>
      ELSE <<SubSeq(s, 1, i - 1)>> \o Split(SubSeq(s, i + 1, Len(s)))

\* Variant: any two-part header passes, whatever its scheme.
extractBearerTokenAnyScheme(authHeader) ==
  IF ~TruthyStr(authHeader) THEN None
  ELSE LET parts == Split(authHeader[1])
       IN  IF Len(parts) # 2 THEN None ELSE Some(parts[2])

\* The token, or null (here None) when the header is missing or not "Bearer <token>".
extractBearerToken(authHeader) ==
  IF ~TruthyStr(authHeader) THEN None
  ELSE LET parts == Split(authHeader[1])
       IN  IF Len(parts) # 2 \/ parts[1] # "Bearer" THEN None ELSE Some(parts[2])

\* The user of the Supabase project the tokens belong to.
TheUser == [id |-> "user-1", email |-> "cook@example.com"]

\* supabase.auth.getUser(token): the user, an error, or an exception (the client
\* cannot be created, the network fails); the last two give null.
VerifyOutcomes == {"user", "error", "throw"}

verifyAuthToken(token, verified) == IF verified = "user" THEN Some(TheUser) ELSE None

authenticateRequest(authHeader, verified) ==
  LET token == extractBearerToken(authHeader)
  IN  IF ~TruthyStr(token) THEN None ELSE verifyAuthToken(token[1], verified)

\* c.json(body, status); a field the body lacks is None.
NoBody ==
  [error |-> None, message |-> None, success |-> None, data |-> None,
   savedRecipe |-> None, dbError |-> None, user |-> None]

Json(body, status) == [status |-> status, body |-> body]

\* Variant: the caller who is not authenticated is answered like a server fault.
unauthorizedResponseAsFault ==
  Json([NoBody EXCEPT
          !.error = Some("Unauthorized: Invalid or missing authentication token")], 500)

unauthorizedResponse ==
  Json([NoBody EXCEPT
          !.error = Some("Unauthorized: Invalid or missing authentication token")], 401)

missingUrlResponse == Json([NoBody EXCEPT !.error = Some("Missing required field: url")], 400)

\* The catch block around the whole handler.
failedResponse(message) ==
  Json([NoBody EXCEPT !.error = Some("Failed to extract recipe"),
                      !.message = Some(message)], 500)

\* Variant: only a body without the field is rejected, an empty url passes.
MissingUrlFieldOnly(body) == body.url = None

\* "if (!body.url)"
MissingUrl(body) == ~TruthyStr(body.url)

workflowInput(body) ==
  [input |-> body.url, language |-> body.language, units |-> constructUnitsString(body)]

\* What run.start resolves with: the status, and endStep's return value on success.
RunResult(status, out) == [status |-> status, result |-> out]

\* The handler without persistence answers with the result whatever its status.
plainResponse(result, user) ==
  Json([NoBody EXCEPT !.success = Some(TRUE), !.data = Some(result),
                      !.user = Some(user)], 200)

\* "if (result.status === 'success')": the persisting handler saves the recipe.
SavesRecipe(result) == result.status = "success"

\* saveRecipeToDatabase resolves with { success, data } or { success: false, error };
\* an exception is caught inside it.
SaveOutcomes ==
  {[success |-> TRUE, data |-> Some("recipe-row"), error |-> None],
   [success |-> FALSE, data |-> None, error |-> Some("Database error: insert failed")],
   [success |-> FALSE, data |-> None,
    error |-> Some("Failed to save recipe: Missing required Supabase environment variables")]}

\* Variant: a save that failed is reported as a server fault.
savedResponseOrFault(result, user, saveResult) ==
  IF saveResult.success
  THEN Json([NoBody EXCEPT !.success = Some(TRUE), !.data = Some(result),
                           !.savedRecipe = saveResult.data, !.user = Some(user)], 200)
  ELSE Json([NoBody EXCEPT !.error = Some("Failed to extract recipe"),
                           !.message = saveResult.error], 500)

savedResponse(result, user, saveResult) ==
  Json([NoBody EXCEPT
          !.success = Some(TRUE), !.data = Some(result),
          !.savedRecipe = IF saveResult.success THEN saveResult.data ELSE Some(JsNull),
          !.dbError = IF saveResult.success THEN None ELSE saveResult.error,
          !.user = Some(user)], 200)

\* The else branch: the run did not succeed, nothing is saved.
notSavedResponse(result, user) ==
  Json([NoBody EXCEPT !.success = Some(FALSE), !.data = Some(result),
                      !.savedRecipe = Some(JsNull), !.user = Some(user)], 200)

NoFields ==
  [url |-> None, language |-> None, weightUnit |-> None, liquidUnit |-> None,
   lengthUnit |-> None, temperatureUnit |-> None]

\* No request has been received.
NoRequest == [version |-> "none", authHeader |-> None, json |-> "none", body |-> NoFields]

\* JSON.stringify of the units object: a property that is undefined is left out.
UnitsJson(units) ==
  LET keys    == <<"length", "liquid", "weight", "temperature">>
      present == SelectSeq(keys, LAMBDA k : units[k] # None)
      member  == [i \in 1..Len(present) |->
                    "\"" \o present[i] \o "\":\"" \o units[present[i]][1] \o "\""]
  IN  "{" \o Join(member, ",") \o "}"

\* "value || null" of a string, a boolean and a number; None is the column's null.
StringOrNull(o) == IF TruthyStr(o) THEN o ELSE None
BooleanOrNull(o) == IF o = Some(TRUE) THEN o ELSE None
NumberOrNull(o) == IF o # None /\ o[1] # 0 THEN o ELSE None

\* The row saveRecipeToDatabase inserts into the recipes table.
mapWorkflowDataToRecipeData(workflowData, userId) ==
  [user_id |-> Some(userId),
   recipe_data |-> StringOrNull(workflowData.recipeData),
   image_url |-> StringOrNull(workflowData.imageUrl),
   is_url |-> workflowData.isUrl,
   is_recipe |-> workflowData.isRecipe,
   is_social |-> BooleanOrNull(workflowData.isSocial),
   provider |-> StringOrNull(workflowData.provider),
   original_url |-> StringOrNull(workflowData.originalUrl),
   recipe_name |-> StringOrNull(workflowData.recipeName),
   time_minutes |-> NumberOrNull(workflowData.timeMinutes),
   serves_people |-> NumberOrNull(workflowData.servesPeople),
   makes_items |-> StringOrNull(workflowData.makesItems),
   language_code |-> StringOrNull(workflowData.languageCode),
   units |-> Some(UnitsJson(workflowData.units))]

\* getSupabaseClient throws before the row is built when the environment lacks the
\* Supabase settings.
ClientMissing ==
  Some("Failed to save recipe: Missing required Supabase environment variables")

NoHandler ==
  [at |-> "idle", user |-> None, saves |-> 0, saveResult |-> None, row |-> None,
   response |-> None]

VARIABLES
  pc,         \* the step about to run, "await-..." inside a step, "success" or "failed"
  inputData,  \* the workflow's input { input, language, units }
  agents,     \* the agent names the Mastra instance has registered
  data,       \* the last step's return value, the next step's inputData
  output,     \* endStep's return value once the run has ended, else undefined
  trace,      \* the ids of the steps executed so far, in order
  calls,      \* how many times fetch, cleanHtml and each agent have been called
  answers,    \* what each of them answered: undefined before, then the outcome
  cleaner,    \* a direct call of cleanHtml: its arguments and what it returned
  unitsCall,  \* a direct call of parseUnitsCategory: its arguments and what it returned
  languageCall, \* a direct call of getLanguageISOCode: its argument and what it returned
  request,    \* the HTTP request recipeExtractorHandler was called with
  handler,    \* where the handler is, and what it has got and answered so far
  peer,       \* a second run of the workflow, started in the same process
  metadataCall, \* a recipe agent's response parsed on its own: the text, the fields
  emptyLoop   \* removeEmptyElements_ called on its own: its locals, iteration by iteration

vars ==
  <<pc, inputData, agents, data, output, trace, calls, answers, cleaner, unitsCall,
    languageCall, request, handler, peer, metadataCall,
    emptyLoop>>

\* The state of one workflow run, and the state outside of it.
runVars == <<pc, inputData, agents, data, output, trace, calls, answers>>

outsideRun ==
  <<cleaner, unitsCall, languageCall, request, handler, peer, metadataCall,
    emptyLoop>>

CallNames == {"fetch", "cleanHtml"} \cup AgentNames

\* No second run has been created.
NoPeer ==
  [pc |-> "idle", inputData |-> [input |-> None, language |-> None, units |-> None],
   data |-> Blank, output |-> None, answers |-> [c \in CallNames |-> None]]

Init ==
  /\ pc = workflowSteps[1]
  /\ inputData \in {[input |-> Some(i), language |-> l, units |-> u] :
                      i \in Inputs, l \in Languages, u \in UnitsRequests}
  /\ agents \in SUBSET AgentNames
  /\ data = Blank
  /\ output = None
  /\ trace = <<>>
  /\ calls = [c \in CallNames |-> 0]
  /\ answers = [c \in CallNames |-> None]
  /\ cleaner = NoCleanerCall
  /\ unitsCall = NoUnitsCall
  /\ languageCall = NoLanguageCall
  /\ request = NoRequest
  /\ handler = NoHandler
  /\ peer = NoPeer
  /\ metadataCall = NoMetadataCall
  /\ emptyLoop = NoEmptyLoop

\* The step with this id starts executing.
Begins(id) == pc = id /\ trace' = Append(trace, id)

\* The step returns d and the workflow moves to the next step.
Returns(id, d) == data' = d /\ pc' = StepAfter(id)

Called(name) == calls' = [calls EXCEPT ![name] = @ + 1]

Answered(name, outcome) == answers' = [answers EXCEPT ![name] = Some(outcome)]

\* mastra.getAgent(name) finds no agent: the step throws inside its own try block.
AgentAbsent(message) == [kind |-> "absent", text |-> "", message |-> message]

SocialProviderCheck ==
  /\ Begins("social-provider-check")
  /\ IF InputMissing(inputData)
     THEN pc' = "failed" /\ UNCHANGED data
     ELSE Returns("social-provider-check", socialProviderCheckReturn(inputData))
  /\ UNCHANGED <<outsideRun, inputData, agents, output, calls, answers>>

Router ==
  /\ Begins("router")
  /\ Returns("router", routerReturn(data))
  /\ UNCHANGED <<outsideRun, inputData, agents, output, calls, answers>>

ProcessUrl ==
  /\ Begins("process-url")
  /\ IF SkipsStage(data)
     THEN Returns("process-url", processUrlSkip(data)) /\ UNCHANGED calls
     ELSE IF processUrlFetches(data)
     THEN pc' = "await-fetch" /\ Called("fetch") /\ UNCHANGED data
     ELSE Returns("process-url", processUrlFallback(data)) /\ UNCHANGED calls
  /\ UNCHANGED <<outsideRun, inputData, agents, output, answers>>

\* "await fetch(originalUrl)" and "await response.text()" settle.
FetchSettles ==
  /\ pc = "await-fetch"
  /\ \E r \in FetchOutcomes :
       Returns("process-url", processUrlSettled(data, r)) /\ Answered("fetch", r)
  /\ UNCHANGED <<outsideRun, inputData, agents, output, trace, calls>>

CleanAndConvert ==
  /\ Begins("clean-and-convert")
  /\ IF SkipsStage(data) \/ ~cleanAndConvertCleans(data)
     THEN /\ Returns("clean-and-convert", cleanAndConvertSkip(data))
          /\ UNCHANGED <<calls, answers>>
     ELSE /\ \E c \in CleanOutcomes :
               /\ Returns("clean-and-convert", cleanAndConvertCleaned(data, c))
               /\ Answered("cleanHtml", c)
          /\ Called("cleanHtml")
  /\ UNCHANGED <<outsideRun, inputData, agents, output>>

UnitParsing ==
  /\ Begins("unit-parsing")
  /\ IF SkipsStage(data) \/ ~HasContent(data)
     THEN Returns("unit-parsing", unitParsingSkip(data)) /\ UNCHANGED <<calls, answers>>
     ELSE IF "unit-parser" \notin agents
     THEN /\ Returns("unit-parsing", unitParsingFallback(data))
          /\ Answered("unit-parser", AgentAbsent("Unit parsing agent not found"))
          /\ UNCHANGED calls
     ELSE /\ pc' = "await-unit-parser"
          /\ Called("unit-parser")
          /\ UNCHANGED <<data, answers>>
  /\ UNCHANGED <<outsideRun, inputData, agents, output>>

UnitParserSettles ==
  /\ pc = "await-unit-parser"
  /\ \E a \in UnitAgentOutcomes :
       Returns("unit-parsing", unitParsingSettled(data, a)) /\ Answered("unit-parser", a)
  /\ UNCHANGED <<outsideRun, inputData, agents, output, trace, calls>>

ImageExtraction ==
  /\ Begins("image-extraction")
  /\ IF SkipsStage(data) \/ ~HasContent(data)
     THEN Returns("image-extraction", imageExtractionSkip(data)) /\ UNCHANGED <<calls, answers>>
     ELSE IF "image-extractor" \notin agents
     THEN /\ Returns("image-extraction", imageExtractionFailed(data))
          /\ Answered("image-extractor", AgentAbsent("Image extraction agent not found"))
          /\ UNCHANGED calls
     ELSE /\ pc' = "await-image-extractor"
          /\ Called("image-extractor")
          /\ UNCHANGED <<data, answers>>
  /\ UNCHANGED <<outsideRun, inputData, agents, output>>

ImageExtractorSettles ==
  /\ pc = "await-image-extractor"
  /\ \E a \in ImageAgentOutcomes :
       /\ Returns("image-extraction", imageExtractionSettled(data, a))
       /\ Answered("image-extractor", a)
  /\ UNCHANGED <<outsideRun, inputData, agents, output, trace, calls>>

RecipeExtraction ==
  /\ Begins("recipe-extraction")
  /\ IF SkipsStage(data) \/ ~HasContent(data)
     THEN /\ Returns("recipe-extraction", recipeExtractionSkip(data))
          /\ UNCHANGED <<calls, answers>>
     ELSE IF "recipe-extractor" \notin agents
     THEN /\ Returns("recipe-extraction",
                     recipeExtractionFailed(data, "Recipe extraction agent not found"))
          /\ Answered("recipe-extractor", AgentAbsent("Recipe extraction agent not found"))
          /\ UNCHANGED calls
     ELSE /\ pc' = "await-recipe-extractor"
          /\ Called("recipe-extractor")
          /\ UNCHANGED <<data, answers>>
  /\ UNCHANGED <<outsideRun, inputData, agents, output>>

RecipeExtractorSettles ==
  /\ pc = "await-recipe-extractor"
  /\ \E a \in RecipeAgentOutcomes :
       /\ Returns("recipe-extraction", recipeExtractionSettled(data, a))
       /\ Answered("recipe-extractor", a)
  /\ UNCHANGED <<outsideRun, inputData, agents, output, trace, calls>>

End ==
  /\ Begins("end")
  /\ output' = Some(endReturn(data))
  /\ pc' = StepAfter("end")
  /\ UNCHANGED <<outsideRun, inputData, agents, data, calls, answers>>

\* The workflow engine runs the steps; the settle actions are the outside world's.
StepActions ==
  \/ SocialProviderCheck
  \/ Router
  \/ ProcessUrl
  \/ CleanAndConvert
  \/ UnitParsing
  \/ ImageExtraction
  \/ RecipeExtraction
  \/ End

SettleActions ==
  \/ FetchSettles
  \/ UnitParserSettles
  \/ ImageExtractorSettles
  \/ RecipeExtractorSettles

Next == StepActions \/ SettleActions

Spec == Init /\ [][Next]_vars

\* The engine runs the step that is ready: the run leaves the step pc names.  Each
\* of StepActions is enabled exactly when pc names its step and always changes pc, so
\* this is the step taken by StepActions.
StepRuns ==
  /\ pc \in {workflowSteps[k] : k \in 1..Len(workflowSteps)}
  /\ pc' \in {"await-fetch", "await-unit-parser", "await-image-extractor",
              "await-recipe-extractor", "success", "failed"}
             \cup {workflowSteps[k] : k \in 1..Len(workflowSteps)}
  /\ pc' # pc

\* The engine always runs a step that is ready; nothing obliges the remote server or
\* a model provider to ever answer.
FairSpec == Spec /\ WF_pc(StepRuns)

(***************************************************************************)
(* cleanHtml and parseUnitsCategory called on their own: the caller picks  *)
(* the arguments, the function returns.  No workflow run is in progress.  *)
(***************************************************************************)
NoRun ==
  /\ pc = "idle"
  /\ inputData = [input |-> None, language |-> None, units |-> None]
  /\ agents = {}
  /\ data = Blank
  /\ output = None
  /\ trace = <<>>
  /\ calls = [c \in CallNames |-> 0]
  /\ answers = [c \in CallNames |-> None]
  /\ request = NoRequest
  /\ handler = NoHandler
  /\ peer = NoPeer

\* Documents a caller may pass: pages with text, images, tables, scripts, comments.
HtmlInputs ==
  {"",
   "<h1>Pancakes</h1><img src=\"p.jpg\" alt=\"stack\">",
   "  <h1 id=\"t\">Pan\n  cakes</h1>\n <div><img src='p.jpg' alt=\"stack\"></div> ",
   "<div class=\"a\"><p> </p><span></span></div><p>Mix</p>",
   "<p>a <b></b> c</p>",
   "<img class=\"hero\" alt=\"stack\" width=\"10\" src=\"p.jpg\">",
   "<img data-src=\"lazy.jpg\" src=\"p.jpg\" alt=\"stack\">",
   "<table><colgroup></colgroup><tr><td>1</td></tr></table>",
   "<p>Hi</p><script>track()</script><style>p{}</style><noscript>x()</noscript>",
   "<script src=\"a.js\"/><p>Hi</p>",
   "<p>Hi</p><SCRIPT>track()</SCRIPT >",
   "<!-- note --><p>Hi</p><br/>",
   "<scr<script></script>ipt>x()</script>"}

CleanerInit ==
  /\ NoRun
  /\ metadataCall = NoMetadataCall
  /\ emptyLoop = NoEmptyLoop
  /\ unitsCall = NoUnitsCall
  /\ languageCall = NoLanguageCall
  /\ cleaner \in {[html |-> h, options |-> o, out |-> None, again |-> None] :
                    h \in HtmlInputs, o \in OptionSets}

\* cleanedHtml = cleanHtml(html, options)
CleanHtml ==
  /\ cleaner.out = None
  /\ cleaner' = [cleaner EXCEPT !.out = Some(cleanHtml(cleaner.html, cleaner.options))]
  /\ UNCHANGED <<runVars, unitsCall, languageCall, request, handler, peer,
               metadataCall,
    emptyLoop>>

\* cleanHtml(cleanedHtml, options): the function applied to its own result.
CleanHtmlAgain ==
  /\ cleaner.out # None
  /\ cleaner.again = None
  /\ cleaner' = [cleaner EXCEPT !.again = Some(cleanHtml(cleaner.out[1], cleaner.options))]
  /\ UNCHANGED <<runVars, unitsCall, languageCall, request, handler, peer,
               metadataCall,
    emptyLoop>>

CleanerNext == CleanHtml \/ CleanHtmlAgain

CleanerSpec == CleanerInit /\ [][CleanerNext]_vars

\* Units strings a caller may pass: keywords, the generic "metric" / "imperial",
\* mixed case, several keywords, none.
UnitsInputs ==
  {"", "metric", "imperial", "2 lbs of flour", "no units here", "Metric", "IMPERIAL only",
   "500 ML", "250 grams", "kg", "inches", "cups and fahrenheit", "metric cups", "tbsp",
   "pounds", "cups fahrenheit"}

UnitsInit ==
  /\ NoRun
  /\ metadataCall = NoMetadataCall
  /\ emptyLoop = NoEmptyLoop
  /\ cleaner = NoCleanerCall
  /\ languageCall = NoLanguageCall
  /\ unitsCall \in {[units |-> u, category |-> c, result |-> None, called |-> FALSE] :
                      u \in UnitsInputs, c \in Categories}

\* result = parseUnitsCategory(units, category)
ParseUnitsCategory ==
  /\ ~unitsCall.called
  /\ unitsCall' = [unitsCall EXCEPT
                     !.result = parseUnitsCategory(unitsCall.units, unitsCall.category),
                     !.called = TRUE]
  /\ UNCHANGED <<runVars, cleaner, languageCall, request, handler, peer,
               metadataCall,
    emptyLoop>>

UnitsNext == ParseUnitsCategory

UnitsSpec == UnitsInit /\ [][UnitsNext]_vars

\* Lowercase letters a two-letter code is made of here.
CodeLetters == {"a", "e", "h", "i", "n", "s", "t", "x"}

\* Language strings a caller may pass: names in any case and with blanks around,
\* regional variants, names the table lacks, two-letter codes, the empty string.
LanguageInputs ==
  {"", "  ", "Spanish", "Klingon", "ENGLISH", " French ", "malayalam", "malay",
   "Brazilian Portuguese", "portuguese (brazil)", "span", "EN", "e", "eng", "x9"}
  \cup {a \o b : a \in CodeLetters, b \in CodeLetters}

LanguageInit ==
  /\ NoRun
  /\ metadataCall = NoMetadataCall
  /\ emptyLoop = NoEmptyLoop
  /\ cleaner = NoCleanerCall
  /\ unitsCall = NoUnitsCall
  /\ languageCall \in {[language |-> l, result |-> None, called |-> FALSE] :
                         l \in LanguageInputs}

\* result = getLanguageISOCode(language)
GetLanguageISOCode ==
  /\ ~languageCall.called
  /\ languageCall' = [languageCall EXCEPT
                        !.result = getLanguageISOCode(languageCall.language),
                        !.called = TRUE]
  /\ UNCHANGED <<runVars, cleaner, unitsCall, request, handler, peer,
               metadataCall,
    emptyLoop>>

LanguageNext == GetLanguageISOCode

LanguageSpec == LanguageInit /\ [][LanguageNext]_vars

(***************************************************************************)
(* One request handled by recipeExtractorHandler.  The handler is async:  *)
(* it is suspended while the token is verified, while the body is read,   *)
(* while the workflow run executes and while the recipe is saved.         *)
(***************************************************************************)
\* Authorization headers a caller may send: none, another scheme, "Bearer" with
\* an empty token, three parts, "Bearer <token>".
AuthHeaders ==
  {None, Some("Basic Y29vazpwdw=="), Some("Bearer "), Some("Bearer token-1 extra"),
   Some("Bearer token-1")}

\* The url field: missing, empty, a recipe page, a social post, not a URL.
Urls ==
  {None, Some(""), Some("https://example.com/recipe"),
   Some("https://www.instagram.com/p/abc123"), Some("not a url at all")}

\* JSON objects a caller may post.
Bodies ==
  {[url |-> u, language |-> l, weightUnit |-> w, liquidUnit |-> q, lengthUnit |-> n,
    temperatureUnit |-> t] :
     u \in Urls, l \in {None, Some("Spanish")}, w \in {None, Some("grams"), Some("oz")},
     q \in {None, Some("ml")}, n \in {None, Some("cm")},
     t \in {None, Some("celsius"), Some("fahrenheit")}}

\* The two versions of the handler: with and without saveRecipeToDatabase.
Versions == {"plain", "persisting"}

\* c.req.json() rejects (the body is not JSON), or resolves with null or an object.
Requests ==
  {[version |-> v, authHeader |-> a, json |-> "object", body |-> b] :
     v \in Versions, a \in AuthHeaders, b \in Bodies}
  \cup {[version |-> v, authHeader |-> a, json |-> j, body |-> NoFields] :
          v \in Versions, a \in AuthHeaders, j \in {"invalid", "null"}}

HandlerInit ==
  /\ pc = "idle"
  /\ inputData = [input |-> None, language |-> None, units |-> None]
  /\ agents \in SUBSET AgentNames
  /\ data = Blank
  /\ output = None
  /\ trace = <<>>
  /\ calls = [c \in CallNames |-> 0]
  /\ answers = [c \in CallNames |-> None]
  /\ cleaner = NoCleanerCall
  /\ unitsCall = NoUnitsCall
  /\ languageCall = NoLanguageCall
  /\ request \in Requests
  /\ handler = [NoHandler EXCEPT !.at = "await-authenticate"]
  /\ peer = NoPeer
  /\ metadataCall = NoMetadataCall
  /\ emptyLoop = NoEmptyLoop

Responds(response) ==
  handler' = [handler EXCEPT !.at = "responded", !.response = Some(response)]

\* "const user = await authenticateRequest(authHeader); if (!user) return 401"
Authenticated ==
  /\ handler.at = "await-authenticate"
  /\ \E verified \in VerifyOutcomes :
       LET user == authenticateRequest(request.authHeader, verified)
       IN  IF user = None
           THEN Responds(unauthorizedResponse)
           ELSE handler' = [handler EXCEPT !.at = "await-json", !.user = user]
  /\ UNCHANGED <<runVars, cleaner, unitsCall, languageCall, request, peer,
               metadataCall,
    emptyLoop>>

\* "const body = await c.req.json()" settles; the handler validates the body and
\* starts the run: "await run.start({ inputData: workflowInput })".
BodyRead ==
  /\ handler.at = "await-json"
  /\ IF request.json = "invalid"
     THEN Responds(failedResponse("Unexpected token in JSON")) /\ UNCHANGED runVars
     ELSE IF request.json = "null"
     THEN /\ Responds(failedResponse("Cannot read properties of null (reading 'url')"))
          /\ UNCHANGED runVars
     ELSE IF MissingUrl(request.body)
     THEN Responds(missingUrlResponse) /\ UNCHANGED runVars
     ELSE /\ handler' = [handler EXCEPT !.at = "await-run"]
          /\ inputData' = workflowInput(request.body)
          /\ pc' = workflowSteps[1]
          /\ UNCHANGED <<agents, data, output, trace, calls, answers>>
  /\ UNCHANGED <<cleaner, unitsCall, languageCall, request, peer,
               metadataCall,
    emptyLoop>>

\* run.start has resolved.  The plain handler answers; the persisting one saves
\* the result of a successful run first: "await saveRecipeToDatabase(...)".
RunResolved ==
  /\ handler.at = "await-run"
  /\ pc \in {"success", "failed"}
  /\ LET result == RunResult(pc, output)
     IN  IF request.version = "plain"
         THEN Responds(plainResponse(result, handler.user[1]))
         ELSE IF SavesRecipe(result)
         THEN handler' = [handler EXCEPT !.at = "await-save", !.saves = @ + 1]
         ELSE Responds(notSavedResponse(result, handler.user[1]))
  /\ UNCHANGED <<runVars, cleaner, unitsCall, languageCall, request, peer,
               metadataCall,
    emptyLoop>>

\* saveRecipeToDatabase has resolved.
RecipeSaved ==
  /\ handler.at = "await-save"
  /\ \E saveResult \in SaveOutcomes :
       handler' = [handler EXCEPT
                     !.at = "responded",
                     !.saveResult = Some(saveResult),
                     !.row = IF saveResult.error = ClientMissing THEN None
                             ELSE Some(mapWorkflowDataToRecipeData(output[1],
                                                                   handler.user[1].id)),
                     !.response = Some(savedResponse(RunResult(pc, output),
                                                     handler.user[1], saveResult))]
  /\ UNCHANGED <<runVars, cleaner, unitsCall, languageCall, request, peer,
               metadataCall,
    emptyLoop>>

HandlerActions == Authenticated \/ BodyRead \/ RunResolved \/ RecipeSaved

HandlerNext == HandlerActions \/ StepActions \/ SettleActions

HandlerSpec == HandlerInit /\ [][HandlerNext]_vars

(***************************************************************************)
(* Two runs in one process.  Every request calls workflow.createRunAsync() *)
(* and run.start(): a second run executes its steps between the steps of  *)
(* the first, and the calls the two runs await settle in any order.  The  *)
(* runs share the Mastra instance and the agents registered in it.        *)
(***************************************************************************)
\* The call each step makes: fetch, cleanHtml or agent.generate.
CallOf ==
  ("process-url" :> "fetch") @@ ("clean-and-convert" :> "cleanHtml")
  @@ ("unit-parsing" :> "unit-parser") @@ ("image-extraction" :> "image-extractor")
  @@ ("recipe-extraction" :> "recipe-extractor")

OutcomesOf ==
  ("fetch" :> FetchOutcomes) @@ ("cleanHtml" :> CleanOutcomes)
  @@ ("unit-parser" :> UnitAgentOutcomes) @@ ("image-extractor" :> ImageAgentOutcomes)
  @@ ("recipe-extractor" :> RecipeAgentOutcomes)

\* The step id, handed d, makes its call.
MakesCall(id, d, registered) ==
  CASE id = "process-url" -> ~SkipsStage(d) /\ processUrlFetches(d)
    [] id = "clean-and-convert" -> ~SkipsStage(d) /\ cleanAndConvertCleans(d)
    [] id \in {"unit-parsing", "image-extraction", "recipe-extraction"} ->
         ~SkipsStage(d) /\ HasContent(d) /\ CallOf[id] \in registered
    [] OTHER -> FALSE

\* What the step returns when it makes no call.
ReturnsWithout(id, in, d) ==
  CASE id = "social-provider-check" -> socialProviderCheckReturn(in)
    [] id = "router" -> routerReturn(d)
    [] id = "process-url" ->
         IF SkipsStage(d) THEN processUrlSkip(d) ELSE processUrlFallback(d)
    [] id = "clean-and-convert" -> cleanAndConvertSkip(d)
    [] id = "unit-parsing" ->
         IF SkipsStage(d) \/ ~HasContent(d) THEN unitParsingSkip(d)
         ELSE unitParsingFallback(d)
    [] id = "image-extraction" ->
         IF SkipsStage(d) \/ ~HasContent(d) THEN imageExtractionSkip(d)
         ELSE imageExtractionFailed(d)
    [] id = "recipe-extraction" ->
         IF SkipsStage(d) \/ ~HasContent(d) THEN recipeExtractionSkip(d)
         ELSE recipeExtractionFailed(d, "Recipe extraction agent not found")

\* What the step returns once its call has settled with outcome a.
ReturnsSettled(id, d, a) ==
  CASE id = "process-url" -> processUrlSettled(d, a)
    [] id = "clean-and-convert" -> cleanAndConvertCleaned(d, a)
    [] id = "unit-parsing" -> unitParsingSettled(d, a)
    [] id = "image-extraction" -> imageExtractionSettled(d, a)
    [] id = "recipe-extraction" -> recipeExtractionSettled(d, a)

StepIds == {workflowSteps[k] : k \in 1..Len(workflowSteps)}

\* Variant: the second run's steps are handed the first run's last return value.
SharedData == data

\* The inputData of the second run's next step: what its own last step returned.
PeerData == peer.data

PeerReturns(id, d) == peer' = [peer EXCEPT !.data = d, !.pc = StepAfter(id)]

PeerSettles(id, a) ==
  peer' = [peer EXCEPT !.data = ReturnsSettled(id, PeerData, a), !.pc = StepAfter(id),
                       !.answers[CallOf[id]] = Some(a)]

\* The engine runs the step the second run is at.
PeerStepRuns ==
  /\ peer.pc \in StepIds
  /\ LET id == peer.pc
     IN  IF id = "social-provider-check" /\ InputMissing(peer.inputData)
         THEN peer' = [peer EXCEPT !.pc = "failed"]
         ELSE IF id = "end"
         THEN peer' = [peer EXCEPT !.output = Some(endReturn(PeerData)),
                                   !.pc = StepAfter(id)]
         ELSE IF ~MakesCall(id, PeerData, agents)
         THEN PeerReturns(id, ReturnsWithout(id, peer.inputData, PeerData))
         ELSE IF CallOf[id] = "cleanHtml"
         THEN \E c \in CleanOutcomes : PeerSettles(id, c)
         ELSE peer' = [peer EXCEPT !.pc = "await-" \o CallOf[id]]
  /\ UNCHANGED <<runVars, cleaner, unitsCall, languageCall, request, handler,
               metadataCall,
    emptyLoop>>

\* The fetch or the agent call the second run awaits settles.
PeerCallSettles ==
  /\ \E id \in DOMAIN CallOf :
       /\ peer.pc = "await-" \o CallOf[id]
       /\ \E a \in OutcomesOf[CallOf[id]] : PeerSettles(id, a)
  /\ UNCHANGED <<runVars, cleaner, unitsCall, languageCall, request, handler,
               metadataCall,
    emptyLoop>>

\* Two requests that differ in everything a run could take from the other.
TwoRunsInit ==
  /\ pc = workflowSteps[1]
  /\ data = Blank
  /\ output = None
  /\ trace = <<>>
  /\ calls = [c \in CallNames |-> 0]
  /\ answers = [c \in CallNames |-> None]
  /\ cleaner = NoCleanerCall
  /\ unitsCall = NoUnitsCall
  /\ languageCall = NoLanguageCall
  /\ request = NoRequest
  /\ handler = NoHandler
  /\ metadataCall = NoMetadataCall
  /\ emptyLoop = NoEmptyLoop
  /\ inputData \in {[input |-> Some(i), language |-> Some("Spanish"),
                     units |-> Some("metric")] :
                      i \in {"https://example.com/recipe",
                             "https://www.instagram.com/p/abc123"}}
  /\ agents \in {AgentNames, {"image-extractor", "recipe-extractor"}}
  /\ peer \in {[NoPeer EXCEPT
                  !.pc = workflowSteps[1],
                  !.inputData = [input |-> Some(i), language |-> None,
                                 units |-> Some("cups fahrenheit")]] :
                 i \in {"https://example.com/recipe", "not a url at all", ""}}

TwoRunsNext == Next \/ PeerStepRuns \/ PeerCallSettles

TwoRunsSpec == TwoRunsInit /\ [][TwoRunsNext]_vars

(***************************************************************************)
(* The metadata block of a recipe agent's response, parsed on its own.    *)
(***************************************************************************)
\* The four labels the workflow reads, in the order of the block, with a value.
MetadataLabels ==
  <<[label |-> "NAME:", value |-> "Stew"], [label |-> "TIME_MINUTES:", value |-> "90"],
    [label |-> "SERVES_PEOPLE:", value |-> "4"],
    [label |-> "MAKES_ITEMS:", value |-> "6 bowls"]>>

\* A line of the block carries a value, carries the label alone, or is missing.
LineKinds == {"value", "empty", "missing"}

RECURSIVE BlockLines(_, _)
BlockLines(kinds, k) ==
  IF k > Len(MetadataLabels) THEN ""
  ELSE (CASE kinds[k] = "value" ->
               "\n" \o MetadataLabels[k].label \o " " \o MetadataLabels[k].value
          [] kinds[k] = "empty" -> "\n" \o MetadataLabels[k].label
          [] kinds[k] = "missing" -> "")
       \o BlockLines(kinds, k + 1)

\* A response whose block holds the lines of these kinds, then the recipe.
ResponseWith(kinds) ==
  MetadataStart \o BlockLines(kinds, 1) \o "\nLANGUAGE: N/A\n" \o MetadataEnd
    \o "\n\n# Stew\nSimmer."

MetadataInit ==
  /\ NoRun
  /\ cleaner = NoCleanerCall
  /\ unitsCall = NoUnitsCall
  /\ languageCall = NoLanguageCall
  /\ metadataCall \in {[kinds |-> kinds, extractedContent |-> ResponseWith(kinds),
                        result |-> None] :
                         kinds \in [1..Len(MetadataLabels) -> LineKinds]}
  /\ emptyLoop = NoEmptyLoop

\* The "if (isRecipe)" block of recipeExtractionStep on extractedContent.
ParseRecipeMetadata ==
  /\ metadataCall.result = None
  /\ metadataCall' =
       [metadataCall EXCEPT !.result = Some(ParseMetadata(metadataCall.extractedContent))]
  /\ UNCHANGED <<runVars, cleaner, unitsCall, languageCall, request, handler, peer,
               emptyLoop>>

MetadataNext == ParseRecipeMetadata

MetadataSpec == MetadataInit /\ [][MetadataNext]_vars

(***************************************************************************)
(* removeEmptyElements_ on its own, one iteration of its do-while loop at *)
(* a time.                                                                *)
(***************************************************************************)
\* The deepest nesting of elements in the strings below.
MaxDepth == 5

NestTags == {"div", "p"}

\* What the innermost element holds: nothing, white space, or a text.
Inners == {"", " \n", "Mix"}

\* The elements named in tags, each inside the one before it, around inner.
RECURSIVE Nest(_, _, _)
Nest(tags, k, inner) ==
  IF k > Len(tags) THEN inner
  ELSE "<" \o tags[k] \o ">" \o Nest(tags, k + 1, inner) \o "</" \o tags[k] \o ">"

TagSequences == UNION {[1..n -> NestTags] : n \in 0..MaxDepth}

EmptyLoopInputs ==
  HtmlInputs \cup {Nest(tags, 1, inner) : tags \in TagSequences, inner \in Inners}

\* The strings the loop can hold: the inputs and what the passes make of them.
RECURSIVE PassClosure(_)
PassClosure(strings) ==
  LET more == strings \cup {EmptyPass(h) : h \in strings}
  IN  IF more = strings THEN strings ELSE PassClosure(more)

\* The body of the do-while for each of these strings, computed once.
Passed == [h \in PassClosure(EmptyLoopInputs) |-> EmptyPass(h)]

EmptyLoopInit ==
  /\ NoRun
  /\ cleaner = NoCleanerCall
  /\ unitsCall = NoUnitsCall
  /\ languageCall = NoLanguageCall
  /\ metadataCall = NoMetadataCall
  /\ emptyLoop \in {[NoEmptyLoop EXCEPT !.html = h, !.result = h] : h \in EmptyLoopInputs}

\* Variant: the loop runs a fixed two iterations.
LoopContinuesTwice(iterations, result, previousLength) == iterations < 2

\* "while (result.length < previousLength)"
LoopContinues(iterations, result, previousLength) == Len(result) < previousLength

\* One iteration of the do-while: the length is noted, the two replaces run, and
\* the condition decides between another iteration and "return result".
EmptyIteration ==
  /\ ~emptyLoop.returned
  /\ LET previousLength == Len(emptyLoop.result)
         result         == Passed[emptyLoop.result]
         iterations     == emptyLoop.iterations + 1
     IN  emptyLoop' =
           [emptyLoop EXCEPT
              !.previousLength = Some(previousLength),
              !.result = result,
              !.iterations = iterations,
              !.returned = ~LoopContinues(iterations, result, previousLength)]
  /\ UNCHANGED <<runVars, cleaner, unitsCall, languageCall, request, handler, peer,
                 metadataCall>>

EmptyLoopNext == EmptyIteration

\* The loop is run by one synchronous call: an iteration that can run does run.
EmptyLoopSpec == EmptyLoopInit /\ [][EmptyLoopNext]_vars /\ WF_vars(EmptyIteration)

(***************************************************************************)
(* Properties of the workflow.                                            *)
(***************************************************************************)
Ended == pc \in {"success", "failed"}

Input == inputData.input[1]

NoCalls == \A c \in CallNames : calls[c] = 0

\* C1: every input string that is not a URL is classified isUrl=false and its run ends
\* on the error route with result exactly "this is not a url", isRecipe=false and
\* isSocial=false, without a fetch or any collaborator call.
C1_NonUrlEndsNotAUrl ==
  ~isValidUrl(Input) =>
    /\ NoCalls
    /\ pc # "failed"
    /\ pc = "success" =>
         /\ data.route = Some("error")
         /\ output[1].result = Some("this is not a url")
         /\ output[1].isUrl = Some(FALSE)
         /\ output[1].isRecipe = Some(FALSE)
         /\ output[1].isSocial = Some(FALSE)

\* The provider table of the claim C2: domain and display name, in matching order.
SocialDomains ==
  <<<<"tiktok.com", "TikTok">>, <<"instagram.com", "Instagram">>,
    <<"facebook.com", "Facebook">>, <<"fb.com", "Facebook">>,
    <<"pinterest.com", "Pinterest">>, <<"pin.it", "Pinterest">>,
    <<"twitter.com", "X (Twitter)">>, <<"x.com", "X (Twitter)">>,
    <<"t.co", "X (Twitter)">>>>

HostHits(host) == {i \in 1..Len(SocialDomains) : Includes(host, SocialDomains[i][1])}

SocialHits(input) ==
  IF isValidUrl(input) THEN HostHits(StripWww(ToLowerCase(URL[input].hostname)))
  ELSE {}

FirstSocialName(input) ==
  SocialDomains[CHOOSE i \in SocialHits(input) : \A j \in SocialHits(input) : i <= j][2]

\* C2: a URL whose hostname (lowercased, leading "www." stripped) contains one of the
\* provider domains ends with isUrl=true, isSocial=true, provider the display name of
\* the first matching provider, result "this url is from <display name>",
\* isRecipe=false, and the content fetch is never invoked.
C2_SocialShortCircuit ==
  SocialHits(Input) # {} =>
    /\ calls["fetch"] = 0
    /\ pc # "failed"
    /\ pc = "success" =>
         /\ output[1].isUrl = Some(TRUE)
         /\ output[1].isSocial = Some(TRUE)
         /\ output[1].provider = Some(FirstSocialName(Input))
         /\ output[1].result = Some("this url is from " \o FirstSocialName(Input))
         /\ output[1].isRecipe = Some(FALSE)

\* A host that matches two providers has ended its run as the first of them.
C2_Witness ==
  /\ pc = "success"
  /\ Input = "https://instagram.com.fb.com/v"
  /\ Cardinality(SocialHits(Input)) = 2
  /\ output[1].provider = Some("Instagram")
  /\ Len(trace) = Len(workflowSteps)

\* The recipe step is ending in failure: the agent is missing or generate rejected.
RecipeExtractionFails ==
  /\ answers["recipe-extractor"] = None
  /\ answers'["recipe-extractor"] # None
  /\ answers'["recipe-extractor"][1].kind \in {"absent", "throw"}

\* C3: a failed recipe extraction records the error message in result with
\* isRecipe=false and keeps what the earlier stages computed: the resolved units of
\* every dimension, the language and its resolved code, and the extracted imageUrl.
C3_RecipeFailureKeepsFields ==
  [][RecipeExtractionFails =>
       /\ data'.result =
            Some("Error extracting recipe: " \o answers'["recipe-extractor"][1].message)
       /\ data'.isRecipe = Some(FALSE)
       /\ \A f \in UnitFields : data'[f] = data[f]
       /\ data'.language = data.language
       /\ data'.languageCode =
            (IF TruthyStr(data.language) THEN getLanguageISOCode(data.language[1]) ELSE None)
       /\ data'.imageUrl = data.imageUrl]_vars

\* C4: whatever the input and whatever the fetch, the sanitizer and the collaborators
\* answer, no step raises past its own boundary (a run never ends with status failed).
C4_NoStageRaises == pc # "failed"

DownstreamSteps ==
  {"process-url", "clean-and-convert", "unit-parsing", "image-extraction",
   "recipe-extraction"}

\* C5: a step after the router that receives route social or error passes route,
\* result, isUrl, isSocial, provider, originalUrl, language and units on unchanged and
\* makes no external call.
C5_PassThrough ==
  [][(pc \in DownstreamSteps /\ SkipsStage(data)) =>
       /\ \A f \in RouteFields : data'[f] = data[f]
       /\ calls' = calls
       /\ answers' = answers
       /\ pc' = StepAfter(pc)]_vars

\* All five downstream steps have passed a short-circuited record through.
C5_Witness ==
  /\ pc = "end"
  /\ data.route = Some("social")
  /\ data.language = Some("Spanish")
  /\ data.units = Some("metric")
  /\ DownstreamSteps \subseteq {trace[i] : i \in 1..Len(trace)}

Awaiting ==
  pc \in {"await-fetch", "await-unit-parser", "await-image-extractor",
          "await-recipe-extractor"}

\* C6: the wait for the remote server and for a collaborator is bounded: a call that
\* never answers becomes a stage-local failure, so a run that is waiting for an
\* answer still reaches the assembled state.
C6_BoundedWait == Awaiting ~> (pc = "success")

FetchFailed ==
  /\ answers["fetch"] # None
  /\ (answers["fetch"][1].kind = "throw" \/ answers["fetch"][1].status \notin 200..299)

\* What the claim C7 expects to read in the result of a failed fetch.
FetchFailureReported(result) ==
  LET r == answers["fetch"][1]
  IN  IF r.kind = "throw" THEN Includes(result, r.message)
      ELSE Includes(result, ToString(r.status)) /\ Includes(result, r.statusText)

\* C7: when the fetch of a normal-route URL answers a non-2xx status or throws, the
\* route is error from then on, isUrl=true, the result holds the status code and
\* status text (or the exception message), the run ends with isRecipe=false, nothing
\* is sanitized, no collaborator is called, and the fetch is not retried.
C7_FetchFailure ==
  FetchFailed =>
    /\ data.route = Some("error")
    /\ data.isUrl = Some(TRUE)
    /\ FetchFailureReported(data.result[1])
    /\ calls["fetch"] = 1
    /\ \A c \in CallNames \ {"fetch"} : calls[c] = 0
    /\ pc # "failed"
    /\ pc = "success" =>
         /\ output[1].result = data.result
         /\ output[1].isUrl = Some(TRUE)
         /\ output[1].isRecipe = Some(FALSE)

\* A run whose fetch answered 404 has ended.
C7_Witness ==
  /\ pc = "success"
  /\ answers["fetch"] # None
  /\ answers["fetch"][1].status = 404
  /\ Includes(output[1].result[1], "404")

\* The image step is ending in failure: the agent is missing or generate rejected.
ImageExtractionFails ==
  /\ answers["image-extractor"] = None
  /\ answers'["image-extractor"] # None
  /\ answers'["image-extractor"][1].kind \in {"absent", "throw"}

ImageExtractionFailed ==
  /\ answers["image-extractor"] # None
  /\ answers["image-extractor"][1].kind \in {"absent", "throw"}

\* C8: when the image collaborator is absent or its call fails, the image step omits
\* imageUrl, leaves the route normal, keeps the resolved units, the language and the
\* cleaned content, and the recipe-extraction step still does its work afterwards.
C8_ImageFailureIsLocal ==
  /\ [][ImageExtractionFails =>
          /\ data'.imageUrl = None
          /\ data'.route = Some("normal")
          /\ data.route = Some("normal")
          /\ \A f \in UnitFields \cup {"language", "units", "cleanedContent"} :
               data'[f] = data[f]
          /\ pc' = "recipe-extraction"]_vars
  /\ [](ImageExtractionFailed /\ pc \in {"end", "success"} =>
          answers["recipe-extractor"] # None)

\* The image agent rejected after the units had been resolved, and the run ended with
\* the units in its output and a recipe-agent answer.
C8_Witness ==
  /\ pc = "success"
  /\ answers["image-extractor"] # None
  /\ answers["image-extractor"][1].kind = "throw"
  /\ output[1].units.length = Some("cm")
  /\ output[1].imageUrl = None
  /\ answers["recipe-extractor"] # None
  /\ answers["recipe-extractor"][1].kind = "text"

IsPrefix(t, u) == Len(t) <= Len(u) /\ t = SubSeq(u, 1, Len(t))

\* C9: in every run the stages execute exactly once each in the fixed order and the
\* run ends in the assembled state.
C9_StagesOnceInOrder ==
  /\ IsPrefix(trace, workflowSteps)
  /\ Ended => (pc = "success" /\ trace = workflowSteps)

\* C10: within a run the route, once social or error, never changes, and isUrl,
\* isSocial and isRecipe never go from true to false from one stage to the next,
\* the assembled output included.
C10_RouteAndFlagsMonotonic ==
  [][/\ SkipsStage(data) => data'.route = data.route
     /\ \A f \in {"isUrl", "isSocial", "isRecipe"} :
          /\ IsTrue(data[f]) => IsTrue(data'[f])
          /\ (IsTrue(data[f]) /\ output' # None) => IsTrue(output'[1][f])]_vars

\* A run went to the error route after the router (its fetch failed) and has ended
\* with isUrl still true.
C10_Witness ==
  /\ pc = "success"
  /\ data.route = Some("error")
  /\ output[1].isUrl = Some(TRUE)
  /\ answers["fetch"] # None

\* A social run has ended with isSocial still true.
C10_WitnessSocial == pc = "success" /\ data.route = Some("social") /\ IsTrue(output[1].isSocial)

\* The recipe agent answered with a text (it was registered and generate resolved).
RecipeAnswered ==
  /\ answers["recipe-extractor"] # None
  /\ answers["recipe-extractor"][1].kind = "text"

\* C11: the result of a finished run is the extracted recipe text, "this is not a
\* recipe", the social-provider message or an error message, and nothing else,
\* whatever the fetched body (an empty body or an empty cleaned markdown included).
C11_ResultIsAnOutcome ==
  pc = "success" =>
    \/ data.route = Some("social") /\ StartsWithAt(output[1].result[1], "this url is from ", 1)
    \/ data.route = Some("error")
    \/ RecipeAnswered /\ output[1].result = Some(Trim(answers["recipe-extractor"][1].text))

\* The recipe agent's answer, as the step reads it (response.text.trim()).
RecipeAnswer == Trim(answers["recipe-extractor"][1].text)

MetadataFields == {"recipeName", "timeMinutes", "servesPeople", "makesItems"}

\* C12: when the recipe agent answers the not-a-recipe sentinel the run completes as
\* a non-error outcome: route normal, isRecipe=false, recipeData and the four
\* metadata fields absent; any other answer gives isRecipe=true with recipeData.
C12_SentinelIsNotAnError ==
  (RecipeAnswered /\ pc \in {"end", "success"}) =>
    /\ data.route = Some("normal")
    /\ IF RecipeAnswer = "this is not a recipe"
       THEN /\ data.isRecipe = Some(FALSE)
            /\ data.recipeData = None
            /\ \A f \in MetadataFields : data[f] = None
       ELSE /\ data.isRecipe = Some(TRUE)
            /\ data.recipeData # None
    /\ pc = "success" =>
         /\ output[1].isRecipe = data.isRecipe
         /\ output[1].recipeData = data.recipeData
         /\ \A f \in MetadataFields : output[1][f] = data[f]

\* A run whose recipe agent answered the sentinel has ended.
C12_Witness ==
  /\ pc = "success"
  /\ RecipeAnswered
  /\ RecipeAnswer = "this is not a recipe"
  /\ output[1].result = Some("this is not a recipe")
  /\ output[1].isRecipe = Some(FALSE)

\* The recipe agent answered the well-formed response for the facts r.
AnsweredWellFormed(r) ==
  RecipeAnswered /\ answers["recipe-extractor"][1].text = WellFormedResponse(r)

\* C13: parsing a response with a well-formed block between the two markers yields
\* recipeName, timeMinutes, servesPeople and makesItems equal to the values on the
\* NAME, TIME_MINUTES, SERVES_PEOPLE and MAKES_ITEMS lines, and recipeData is the
\* response with the whole delimited block removed.
C13_MetadataRoundTrip ==
  \A r \in RecipeFacts :
    (AnsweredWellFormed(r) /\ pc \in {"end", "success"}) =>
      /\ data.recipeName = Some(r.name)
      /\ data.timeMinutes = Some(r.time)
      /\ data.servesPeople = Some(r.serves)
      /\ data.makesItems = Some(r.makes)
      /\ data.recipeData = Some(r.body)
      /\ pc = "success" =>
           /\ output[1].recipeName = Some(r.name)
           /\ output[1].timeMinutes = Some(r.time)
           /\ output[1].servesPeople = Some(r.serves)
           /\ output[1].makesItems = Some(r.makes)
           /\ output[1].recipeData = Some(r.body)

\* A run has ended on the response "NAME: Pancakes, TIME_MINUTES: 20, SERVES_PEOPLE: 4,
\* MAKES_ITEMS: N/A" with the four values and the body without the block.
C13_Witness ==
  /\ pc = "success"
  /\ \E r \in RecipeFacts : r.name = "Pancakes" /\ AnsweredWellFormed(r)
  /\ output[1].recipeName = Some("Pancakes")
  /\ output[1].timeMinutes = Some(20)
  /\ output[1].servesPeople = Some(4)
  /\ output[1].makesItems = Some("N/A")
  /\ ~Includes(output[1].recipeData[1], MetadataEnd)

\* The recipe agent answered a recipe text in which a marker is missing.
AnsweredWithoutBlock ==
  /\ RecipeAnswered
  /\ RecipeAnswer # "this is not a recipe"
  /\ ~(Includes(RecipeAnswer, MetadataStart) /\ Includes(RecipeAnswer, MetadataEnd))

\* C14: a recipe response without a metadata block (either marker missing) is
\* tolerated: the four metadata fields are absent, recipeData is the response text
\* as the step read it, isRecipe=true and the route stays normal.
C14_NoBlockTolerated ==
  (AnsweredWithoutBlock /\ pc \in {"end", "success"}) =>
    /\ \A f \in MetadataFields : data[f] = None
    /\ data.recipeData = Some(RecipeAnswer)
    /\ data.isRecipe = Some(TRUE)
    /\ data.route = Some("normal")
    /\ pc = "success" =>
         /\ \A f \in MetadataFields : output[1][f] = None
         /\ output[1].recipeData = Some(RecipeAnswer)
         /\ output[1].isRecipe = Some(TRUE)

\* A run has ended on a response whose metadata section is opened and never closed.
C14_Witness ==
  /\ pc = "success"
  /\ AnsweredWithoutBlock
  /\ Includes(RecipeAnswer, MetadataStart)
  /\ Includes(output[1].recipeData[1], "NAME: Stew")
  /\ output[1].recipeName = None

\* The string is written as an absolute URL with a scheme and an authority:
\* "scheme://host...", the host not empty.
HasSchemeAndAuthority(s) ==
  LET colon == IndexOfFrom(s, ":", 1)
  IN  /\ colon > 1
      /\ IsAlpha(Char(s, 1))
      /\ AllSchemeChars(SubSeq(s, 1, colon - 1))
      /\ StartsWithAt(s, "//", colon + 1)
      /\ Len(s) >= colon + 3
      /\ Char(s, colon + 3) \notin {"/", "\\", "?", "#", ":", "@"}

\* C15: isValidUrl is true exactly for the inputs that are absolute URLs with a scheme
\* and an authority; relative, authority-less and malformed strings are classified
\* isUrl=false.
C15_UrlNeedsSchemeAndAuthority ==
  /\ isValidUrl(Input) = HasSchemeAndAuthority(Input)
  /\ (trace # <<>> /\ pc # "failed") => data.isUrl = Some(HasSchemeAndAuthority(Input))

(***************************************************************************)
(* Properties of cleanHtml.                                               *)
(***************************************************************************)
\* The function has returned for the document, called with the default options.
CleanedByDefault == cleaner.options = DefaultOptions /\ cleaner.out # None

\* C16: with the default options, cleaning the result of cleanHtml again returns
\* the same string: cleanHtml(cleanHtml(html)) = cleanHtml(html) for every html.
C16_Idempotent ==
  (CleanedByDefault /\ cleaner.again # None) => cleaner.again = cleaner.out

\* The removeAttributes and removeEmptyElements options are set and the function has
\* returned.
CleanedStrippingBoth ==
  cleaner.options.removeAttributes /\ cleaner.options.removeEmptyElements
  /\ cleaner.out # None

\* The tag that starts at i, up to its closing ">".
TagAt(s, i) == SubSeq(s, i, FirstStop(s, i, {">"}))

\* The document has an image element with src="p.jpg" and alt="stack", in any order
\* and among any other attributes.
HasStackImage(s) ==
  \E i \in 1..Len(s) :
    /\ StartsWithAt(s, "<img ", i)
    /\ Includes(TagAt(s, i), " src=\"p.jpg\"")
    /\ Includes(TagAt(s, i), " alt=\"stack\"")

\* An image tag with src="p.jpg", alt="stack" and no other attribute.
BareStackImages ==
  {"<img src=\"p.jpg\" alt=\"stack\" />", "<img src=\"p.jpg\" alt=\"stack\"/>",
   "<img src=\"p.jpg\" alt=\"stack\">", "<img alt=\"stack\" src=\"p.jpg\" />",
   "<img alt=\"stack\" src=\"p.jpg\"/>", "<img alt=\"stack\" src=\"p.jpg\">"}

\* C17: when the document has an image element with src="X" and alt="Y", whatever
\* its other attributes, the result of cleanHtml with removeAttributes and
\* removeEmptyElements set has an image tag with exactly src="X" and alt="Y".
C17_ImageKeepsSrcAndAlt ==
  (CleanedStrippingBoth /\ HasStackImage(cleaner.html))
    => \E t \in BareStackImages : Includes(cleaner.out[1], t)

\* The elements the empty-element removal leaves alone.
VoidElements ==
  {"img", "br", "hr", "input", "meta", "link", "area", "base", "col", "embed", "source",
   "track", "wbr"}

\* An element starts at i whose start tag is followed by nothing but whitespace and
\* then its own end tag, and that is not one of the void elements.
EmptyElementAt(s, i) ==
  /\ Char(s, i) = "<"
  /\ i < Len(s)
  /\ IsAlpha(Char(s, i + 1))
  /\ SubSeq(s, i + 1, NameEnd(s, i + 1)) \notin VoidElements
  /\ FirstStop(s, i, {">"}) < Len(s)
  /\ StartsWithAt(s, "</" \o SubSeq(s, i + 1, NameEnd(s, i + 1)) \o ">",
                  SkipSpace(s, FirstStop(s, i, {">"}) + 1))

\* C18: after cleanHtml with removeEmptyElements set, the result has no element
\* without children and without non-whitespace text, the void elements excepted.
C18_NoEmptyElementLeft ==
  (cleaner.options.removeEmptyElements /\ cleaner.out # None)
    => ~\E i \in 1..Len(cleaner.out[1]) : EmptyElementAt(cleaner.out[1], i)

\* What the script, style and noscript elements of the documents contain.
RemovedContents == {"track()", "x()", "p{}"}

\* C19: whatever the document and the options, the result of cleanHtml has no
\* script, style or noscript tag and none of what those elements contained.
C19_NoScriptStyleNoscript ==
  cleaner.out # None
    => /\ \A i \in 1..Len(cleaner.out[1]) : \A k \in 1..Len(TAGS_TO_REMOVE) :
            ~StartsWithAtCI(cleaner.out[1], "<" \o TAGS_TO_REMOVE[k], i)
       /\ \A c \in RemovedContents : ~Includes(cleaner.out[1], c)

(***************************************************************************)
(* Properties of parseUnitsCategory.                                      *)
(***************************************************************************)
\* The lowercased units strings.
Lowered == [u \in UnitsInputs |-> ToLowerCase(u)]

\* The keywords of the category that occur in the lowercased text, by position in
\* the category's list.
KeywordHits(u, c) ==
  {i \in 1..Len(unitPatterns[c]) : Includes(Lowered[u], unitPatterns[c][i])}

Least(S) == CHOOSE i \in S : \A j \in S : i <= j

MetricDefaults ==
  [length |-> "cm", liquid |-> "ml", weight |-> "grams", temperature |-> "celsius"]

ImperialDefaults ==
  [length |-> "inch", liquid |-> "cup", weight |-> "ounces", temperature |-> "fahrenheit"]

\* What the call is expected to return for the text u and the category c.
Categorized(u, c) ==
  IF KeywordHits(u, c) # {} THEN Some(unitPatterns[c][Least(KeywordHits(u, c))])
  ELSE IF Includes(Lowered[u], "metric") THEN Some(MetricDefaults[c])
  ELSE IF Includes(Lowered[u], "imperial") THEN Some(ImperialDefaults[c])
  ELSE None

\* C20: parseUnitsCategory returns the first keyword of the category's list that
\* occurs in the lowercased text, else the category's metric default when the text
\* contains "metric", else its imperial default when it contains "imperial", else
\* undefined: "metric" gives "grams" for weight, "2 lbs of flour" gives "lb", "no
\* units here" gives undefined.
C20_FirstKeywordThenDefaults ==
  unitsCall.called =>
    /\ unitsCall.result = Categorized(unitsCall.units, unitsCall.category)
    /\ unitPatterns.weight = <<"gram", "grams", "g", "kilogram", "kg", "ounce", "oz",
                               "pound", "pounds", "lb", "lbs">>
    /\ (unitsCall.units = "metric" /\ unitsCall.category = "weight")
         => unitsCall.result = Some("grams")
    /\ (unitsCall.units = "2 lbs of flour" /\ unitsCall.category = "weight")
         => unitsCall.result = Some("lb")
    /\ (unitsCall.units = "no units here" /\ unitsCall.category = "weight")
         => unitsCall.result = None

\* A text with two keywords of the weight list ("lb" before "lbs") has been
\* categorized.
C20_Witness ==
  /\ unitsCall.called
  /\ unitsCall.units = "2 lbs of flour"
  /\ unitsCall.category = "weight"
  /\ unitsCall.result = Some("lb")

(***************************************************************************)
(* Properties of getLanguageISOCode.                                      *)
(***************************************************************************)
\* The language strings lowercased and trimmed.
LoweredAndTrimmed == [l \in LanguageInputs |-> Trim(ToLowerCase(l))]

\* The table entries whose name is the text, and those whose name contains the text
\* or is contained in it, by position in the table.
ExactEntries(t) == {i \in 1..Len(languageMap) : languageMap[i][1] = t}

PartialEntries(t) ==
  {i \in 1..Len(languageMap) :
     Includes(t, languageMap[i][1]) \/ Includes(languageMap[i][1], t)}

\* The code the table gives for the text: the exact entry's first, else the first
\* partial entry's; none when no entry matches.
TableCode(t) ==
  IF ExactEntries(t) # {} THEN Some(languageMap[Least(ExactEntries(t))][2])
  ELSE IF PartialEntries(t) # {} THEN Some(languageMap[Least(PartialEntries(t))][2])
  ELSE None

\* The call returned what the table gives, for a text some entry matches.
ResolvedByTable ==
  TableCode(LoweredAndTrimmed[languageCall.language]) # None
    => languageCall.result = TableCode(LoweredAndTrimmed[languageCall.language])

ResolvedExamples ==
  /\ languageCall.language = "Spanish" => languageCall.result = Some("es")
  /\ languageCall.language = "Klingon" => languageCall.result = None

\* C22 as stated: for every input, getLanguageISOCode returns the code of the entry
\* named exactly like the lowercased, trimmed input, else the code of the first
\* entry whose name contains the input or is contained in it; "Spanish" gives "es"
\* and "Klingon" gives undefined.
C22_TableLookupAnyInput ==
  languageCall.called => (ResolvedByTable /\ ResolvedExamples)

\* C22 amended: the same for every input but the empty string, for which the
\* function returns undefined before it looks at the table.
C22_TableLookup ==
  languageCall.called =>
    /\ languageCall.language # "" => ResolvedByTable
    /\ languageCall.language = "" => languageCall.result = None
    /\ ResolvedExamples

\* A name with an exact entry ("malayalam") that an earlier entry ("malay") matches
\* partially has been resolved by its exact entry.
C22_Witness ==
  /\ languageCall.called
  /\ languageCall.language = "malayalam"
  /\ Least(PartialEntries("malayalam")) < Least(ExactEntries("malayalam"))
  /\ languageCall.result = Some("ml")

\* C23: an input of exactly two lowercase letters is returned as it is.
C23_TwoLettersUnchanged ==
  (languageCall.called /\ Len(languageCall.language) = 2 /\ AllLower(languageCall.language))
    => languageCall.result = Some(languageCall.language)

(***************************************************************************)
(* Properties of the assembly and of the later stages.                    *)
(***************************************************************************)
\* The fields endStep copies from its input as they are.
CopiedFields ==
  {"result", "recipeData", "imageUrl", "isUrl", "isRecipe", "isSocial", "provider",
   "originalUrl", "recipeName", "timeMinutes", "servesPeople", "makesItems", "language",
   "languageCode"}

\* C26: the assembled output has no route field, has the flat unitsLength,
\* unitsLiquid, unitsWeight and unitsTemperature of the last stage's record as
\* units {length, liquid, weight, temperature}, and every other field as the last
\* stage returned it, whatever the route.
C26_AssemblyReshapes ==
  pc = "success" =>
    /\ output # None
    /\ DOMAIN output[1] = CopiedFields \cup {"units"}
    /\ \A f \in CopiedFields : output[1][f] = data[f]
    /\ output[1].units = [length |-> data.unitsLength, liquid |-> data.unitsLiquid,
                          weight |-> data.unitsWeight,
                          temperature |-> data.unitsTemperature]

\* A run on the normal route whose stages resolved different length and liquid units
\* has been assembled.
C26_Witness ==
  /\ pc = "success"
  /\ data.route = Some("normal")
  /\ data.unitsLength # data.unitsLiquid
  /\ data.unitsWeight # None
  /\ output[1].units.weight = data.unitsWeight

\* The image agent answered with the URL of an image.
ImageFound ==
  /\ answers["image-extractor"] # None
  /\ answers["image-extractor"][1].kind = "text"
  /\ answers["image-extractor"][1].text = " https://example.com/p.jpg\n"

\* C28: the imageUrl the image stage extracted is in the assembled output as it was
\* extracted, whether the recipe stage then returns a recipe, "this is not a recipe",
\* or fails (agent missing or call rejected).
C28_ImageUrlSurvivesRecipeStage ==
  /\ (ImageFound /\ pc \in {"recipe-extraction", "await-recipe-extractor", "end"})
       => data.imageUrl = Some("https://example.com/p.jpg")
  /\ (ImageFound /\ pc = "success")
       => output[1].imageUrl = Some("https://example.com/p.jpg")

\* An image was extracted, the recipe agent's call then failed, and the run has been
\* assembled with the error and the image URL.
C28_Witness ==
  /\ pc = "success"
  /\ ImageFound
  /\ answers["recipe-extractor"] # None
  /\ answers["recipe-extractor"][1].kind \in {"throw", "absent"}
  /\ output[1].isRecipe = Some(FALSE)
  /\ output[1].imageUrl = Some("https://example.com/p.jpg")

\* The unit step is falling back: the unit-parser agent is missing, its call
\* rejected, or its text is not JSON.
UnitParsingFallsBack ==
  /\ answers["unit-parser"] = None
  /\ answers'["unit-parser"] # None
  /\ \/ answers'["unit-parser"][1].kind \in {"absent", "throw"}
     \/ answers'["unit-parser"][1].json = "invalid"

UnitFieldOf ==
  [length |-> "unitsLength", liquid |-> "unitsLiquid", weight |-> "unitsWeight",
   temperature |-> "unitsTemperature"]

\* No unit: the field is undefined or null.
AbsentUnit(v) == v = None \/ v = Some(JsNull)

\* C29: when the unit-parser agent is absent, throws, or answers text that is not
\* JSON, the unit step stays on the normal route, hands over to the image step,
\* gives every dimension what the categorizer finds in the user's units string (no
\* unit, undefined or null, in every dimension when no units were requested), and
\* keeps cleanedContent, imageUrl and language.
C29_UnitFallbackIsLocal ==
  [][UnitParsingFallsBack =>
       /\ data.route = Some("normal")
       /\ data'.route = Some("normal")
       /\ pc' = "image-extraction"
       /\ \A c \in Categories :
            IF data.units \in {None, Some("")}
            THEN AbsentUnit(data'[UnitFieldOf[c]])
            ELSE data'[UnitFieldOf[c]] = Categorized(data.units[1], c)
       /\ \A f \in {"cleanedContent", "imageUrl", "language"} : data'[f] = data[f]]_vars

\* The agent was missing for a run that asked for metric units: the step resolved
\* them itself and the run went on to the image step on the normal route.
C29_Witness ==
  /\ pc = "image-extraction"
  /\ answers["unit-parser"] # None
  /\ answers["unit-parser"][1].kind = "absent"
  /\ data.route = Some("normal")
  /\ data.units = Some("metric")
  /\ data.unitsWeight = Some("grams")
  /\ data.unitsLength = Some("cm")

(***************************************************************************)
(* Properties of recipeExtractorHandler.                                  *)
(***************************************************************************)
\* The request carries a JSON object without a url, or with an empty one.
NoUrlRequest == request.json = "object" /\ request.body.url \in {None, Some("")}

\* The response is 400 { error: "Missing required field: url" }.
Answered400 ==
  /\ handler.response # None
  /\ handler.response[1].status = 400
  /\ handler.response[1].body = [NoBody EXCEPT !.error = Some("Missing required field: url")]

NoRunStarted == pc = "idle" /\ trace = <<>> /\ output = None

Responded == handler.at = "responded"

Status == handler.response[1].status

\* The workflow output the response carries: data.result of a 200 response.
Reported == handler.response[1].body.data[1].result[1]

\* The domain-level failures of a run, told from the request and from what the
\* fetch and the recipe agent answered.
InvalidUrlFailure == trace # <<>> /\ ~isValidUrl(Input)

SocialSource == trace # <<>> /\ detectSocialProvider(Input).isSocial

NotARecipeAnswered == RecipeAnswered /\ RecipeAnswer = "this is not a recipe"

DomainFailure == InvalidUrlFailure \/ SocialSource \/ FetchFailed \/ NotARecipeAnswered

\* A 200 response that carries the result of a run that reached assembly, with the
\* failure told by isUrl, isRecipe, isSocial and result.
DomainFailureReported ==
  /\ Status = 200
  /\ handler.response[1].body.error = None
  /\ handler.response[1].body.data = Some(RunResult("success", output))
  /\ InvalidUrlFailure =>
       Reported.isUrl = Some(FALSE) /\ Reported.result = Some("this is not a url")
  /\ SocialSource => Reported.isUrl = Some(TRUE) /\ Reported.isSocial = Some(TRUE)
  /\ FetchFailed =>
       /\ Reported.isUrl = Some(TRUE)
       /\ Reported.isRecipe = Some(FALSE)
       /\ FetchFailureReported(Reported.result[1])
  /\ NotARecipeAnswered =>
       /\ Reported.isUrl = Some(TRUE)
       /\ Reported.isRecipe = Some(FALSE)
       /\ Reported.result = Some("this is not a recipe")

SaveAttempted == handler.saves > 0

SaveFailed == handler.saveResult # None /\ ~handler.saveResult[1].success

\* C30: the persisting handler attempts a save only once the run has reported
\* status success, never before or without a run, and at most once; a save that
\* failed (database error or exception) leaves the answer at 200 with success true,
\* the run's result as data, savedRecipe null and dbError set.
C30_SaveAfterSuccessOnly ==
  /\ SaveAttempted =>
       /\ request.version = "persisting"
       /\ handler.saves = 1
       /\ handler.user # None
       /\ pc = "success"
       /\ trace = workflowSteps
       /\ output # None
  /\ handler.saveResult # None => SaveAttempted
  /\ (Responded /\ SaveFailed) =>
       /\ Status = 200
       /\ handler.response[1].body.success = Some(TRUE)
       /\ handler.response[1].body.data = Some(RunResult("success", output))
       /\ handler.response[1].body.savedRecipe = Some(JsNull)
       /\ handler.response[1].body.dbError = handler.saveResult[1].error
       /\ handler.response[1].body.dbError # None
       /\ handler.response[1].body.error = None

\* The save of a successful run's recipe threw inside saveRecipeToDatabase, and the
\* handler has answered.
C30_Witness ==
  /\ Responded
  /\ SaveFailed
  /\ Includes(handler.saveResult[1].error[1], "Failed to save recipe")
  /\ Reported.isRecipe = Some(TRUE)
  /\ Status = 200

\* "Supported Units" of the API documentation, by dimension.
SupportedUnits ==
  [weight |-> {"grams", "g", "kilogram", "kg", "ounce", "oz", "pound", "pounds", "lb",
               "lbs"},
   length |-> {"cm", "centimeter", "inch", "inches", "mm", "millimeter", "meter",
               "metres", "feet", "ft"},
   liquid |-> {"ml", "milliliter", "liter", "litre", "cup", "cups", "tablespoon", "tbsp",
               "teaspoon", "tsp", "fluid ounce", "fl oz", "pint", "quart", "gallon"},
   temperature |-> {"celsius", "c", "fahrenheit", "f", "kelvin", "k"}]

\* The unit field of the request for each dimension.
Supplied ==
  [length |-> request.body.lengthUnit, liquid |-> request.body.liquidUnit,
   weight |-> request.body.weightUnit, temperature |-> request.body.temperatureUnit]

SuppliedAreSupported ==
  \A c \in Categories : Supplied[c] = None \/ Supplied[c][1] \in SupportedUnits[c]

\* The unit step resolved the units with parseUnitsCategory: the unit-parser agent
\* is missing, its call rejected, or its text is not a JSON object.
ResolvedByCategorizer ==
  /\ answers["unit-parser"] # None
  /\ \/ answers["unit-parser"][1].kind \in {"absent", "throw"}
     \/ answers["unit-parser"][1].json \in {"invalid", "null"}

\* C21: for a request whose unit fields are supported keywords of their dimensions,
\* the units object of the response reports for every dimension the keyword that
\* was supplied for it, when the categorizer resolved the units from the joined
\* units string.  Stated for the runs whose recipe agent answered: a failed recipe
\* extraction returns no units at all.
C21_SuppliedUnitsReported ==
  (/\ Responded
   /\ Status = 200
   /\ ResolvedByCategorizer
   /\ RecipeAnswered
   /\ SuppliedAreSupported) =>
    \A c \in Categories : Supplied[c] # None => Reported.units[c] = Supplied[c]

(***************************************************************************)
(* Properties of concurrent runs.                                         *)
(***************************************************************************)
\* The step a run at position p is in: the one about to run, or the one awaiting.
StepAt(p) ==
  IF p \in StepIds THEN p
  ELSE CHOOSE id \in DOMAIN CallOf : p = "await-" \o CallOf[id]

\* A step that moved a run from position p to q, with input in, handed d and having
\* got the answer a of its call if one settled, did what the step does in a run that
\* is alone: it returned the value rd (or the output ro) computed from in, d and a.
AsAlone(p, q, in, d, settled, a, rd, ro) ==
  LET id == StepAt(p)
  IN  \/ q = "failed" /\ id = "social-provider-check" /\ InputMissing(in)
      \/ /\ p \in StepIds
         /\ MakesCall(id, d, agents)
         /\ q = "await-" \o CallOf[id]
         /\ rd = d
      \/ /\ q = StepAfter(id)
         /\ IF id = "end" THEN ro = Some(endReturn(d)) /\ rd = d
            ELSE IF settled THEN rd = ReturnsSettled(id, d, a[CallOf[id]][1])
            ELSE rd = ReturnsWithout(id, in, d)

Invoked(c) == calls'[c] # calls[c]

Collaborators == {"image-extractor", "recipe-extractor"}

\* C31: in any run the fetch, the image agent and the recipe agent are each invoked
\* at most once; the fetch only on the normal route, the agents only on the normal
\* route with non-empty cleaned markdown; and the recipe agent is invoked only after
\* the image step is over (its call, if it made one, has settled).
C31_CallsOnceInSequence ==
  [][/\ \A c \in {"fetch"} \cup Collaborators :
          Invoked(c) => (calls[c] = 0 /\ calls'[c] = 1 /\ data.route = Some("normal"))
     /\ \A c \in Collaborators :
          Invoked(c) => (data.cleanedContent # None /\ data.cleanedContent[1] # "")
     /\ Invoked("recipe-extractor") =>
          /\ pc = "recipe-extraction"
          /\ "image-extraction" \in {trace[k] : k \in 1..Len(trace)}
          /\ calls["image-extractor"] = 1 => answers["image-extractor"] # None]_vars

\* A run that fetched the page and called both agents once has ended.
C31_Witness ==
  /\ pc = "success"
  /\ calls["fetch"] = 1
  /\ calls["image-extractor"] = 1
  /\ calls["recipe-extractor"] = 1
  /\ answers["recipe-extractor"] # None

(***************************************************************************)
(* Properties of the metadata parser.                                     *)
(***************************************************************************)
MetadataParsed == metadataCall.result # None

\* The value the line of the k-th label carries, absent when the line carries the
\* label alone or is missing.
OwnValue(k) ==
  IF metadataCall.kinds[k] = "value" THEN Some(MetadataLabels[k].value) ELSE None

\* C32: each metadata field is taken from the line that carries its own label: it
\* is absent when that line has no value or is missing, and never holds the text of
\* another line.
C32_FieldsFromOwnLine ==
  MetadataParsed =>
    LET meta == metadataCall.result[1].meta
    IN  /\ meta.recipeName = OwnValue(1)
        /\ meta.timeMinutes = (IF OwnValue(2) = None THEN None ELSE Some(90))
        /\ meta.servesPeople = (IF OwnValue(3) = None THEN None ELSE Some(4))
        /\ meta.makesItems = OwnValue(4)

\* The provider domains of the claim C33.
ListedDomains == {SocialDomains[i][1] : i \in 1..Len(SocialDomains)}

EndsWith(s, sub) == Len(sub) <= Len(s) /\ StartsWithAt(s, sub, Len(s) - Len(sub) + 1)

\* The host is one of the listed domains or a subdomain of one.
OnListedHost(host) ==
  \E d \in ListedDomains : host = d \/ EndsWith(host, "." \o d)

InputHost == StripWww(ToLowerCase(URL[Input].hostname))

\* C33: a run is routed as social only if the hostname of its URL (lowercased, leading
\* "www." stripped) is a listed provider domain or a subdomain of one; a run whose URL
\* is on any other host takes the normal route, and its page is fetched before the
\* run ends.
C33_SocialOnlyOnListedHost ==
  /\ data.route = Some("social") => isValidUrl(Input) /\ OnListedHost(InputHost)
  /\ (isValidUrl(Input) /\ ~OnListedHost(InputHost) /\ data.route # None
        /\ calls["fetch"] = 0) =>
       data.route = Some("normal")
  /\ (isValidUrl(Input) /\ ~OnListedHost(InputHost) /\ pc = "success") =>
       calls["fetch"] = 1

\* A unit field of the request carries one of the generic hints.
GenericHintSupplied ==
  \E c \in Categories :
    /\ Supplied[c] # None
    /\ \/ Includes(ToLowerCase(Supplied[c][1]), "metric")
       \/ Includes(ToLowerCase(Supplied[c][1]), "imperial")

\* C34: when the categorizer resolved the units, a dimension for which the request
\* supplied no unit field, and no unit field contains "metric" or "imperial", is
\* absent from the units the response reports: a unit supplied for one dimension
\* gives no value to another.
C34_NoUnitAcrossDimensions ==
  (/\ Responded
   /\ Status = 200
   /\ ResolvedByCategorizer
   /\ ~GenericHintSupplied) =>
    \A c \in Categories : Supplied[c] = None => Reported.units[c] = None

(***************************************************************************)
(* Properties of the assembled output.                                    *)
(***************************************************************************)
\* C35: in the output of every run that ended in success, isRecipe=true implies
\* isUrl=true and isSocial=false; isSocial=true implies isUrl=true, isRecipe=false
\* and a provider; isUrl=false implies no originalUrl; recipeData is present exactly
\* when isRecipe=true; and a metadata field is present only when isRecipe=true.
C35_OutputConsistent ==
  pc = "success" =>
    LET o == output[1]
    IN  /\ o.isRecipe = Some(TRUE) => o.isUrl = Some(TRUE) /\ o.isSocial = Some(FALSE)
        /\ o.isSocial = Some(TRUE) =>
             o.isUrl = Some(TRUE) /\ o.isRecipe = Some(FALSE) /\ o.provider # None
        /\ o.isUrl = Some(FALSE) => o.originalUrl = None
        /\ (o.recipeData # None) <=> (o.isRecipe = Some(TRUE))
        /\ \A f \in MetadataFields : o[f] # None => o.isRecipe = Some(TRUE)

\* A run has ended as a recipe with a name read from the metadata block.
C35_Witness ==
  /\ pc = "success"
  /\ output[1].isRecipe = Some(TRUE)
  /\ output[1].isUrl = Some(TRUE)
  /\ output[1].isSocial = Some(FALSE)
  /\ output[1].recipeData # None
  /\ output[1].recipeName # None

\* The results of the defensive branches of the router and of the fetch stage.
FallbackResults == {Some("Unknown routing error"), Some("Invalid state for HTML fetching")}

\* C36: whatever the input, the fetch and the collaborators do, no step of a run
\* returns the result "Unknown routing error" or "Invalid state for HTML fetching",
\* and no run ends with one of them.
C36_FallbacksUnreachable ==
  /\ data.result \notin FallbackResults
  /\ pc = "success" => output[1].result \notin FallbackResults

\* A run has passed the router and the fetch stage on the normal route and ended.
C36_Witness ==
  /\ pc = "success"
  /\ calls["fetch"] = 1
  /\ Len(trace) = Len(workflowSteps)
  /\ output[1].result \notin FallbackResults

\* The header is "Bearer <token>": the scheme, one space, and a token without spaces.
WellFormedBearer(authHeader) ==
  /\ authHeader # None
  /\ StartsWithAt(authHeader[1], "Bearer ", 1)
  /\ Len(authHeader[1]) > 7
  /\ ~Includes(SubSeq(authHeader[1], 8, Len(authHeader[1])), " ")

\* The handler has not accepted the caller: it is authenticating or has refused.
NotAuthenticated == request.version # "none" /\ handler.user = None

\* C37: a request whose Authorization header is missing, of another scheme, of a
\* wrong number of parts, or whose token verification rejects, is not accepted; a
\* request that is not accepted is answered 401 straight from authentication, with
\* the body unread, no run started, no fetch and no collaborator called, and
\* nothing saved.
C37_UnauthorizedStopsAtOnce ==
  /\ (request.version # "none" /\ ~WellFormedBearer(request.authHeader)) =>
       handler.user = None
  /\ NotAuthenticated =>
       /\ handler.at \in {"await-authenticate", "responded"}
       /\ Responded => Status = 401
       /\ pc = "idle"
       /\ trace = <<>>
       /\ NoCalls
       /\ handler.saves = 0
       /\ handler.saveResult = None

\* A well-formed bearer token that verification rejected has been answered 401.
C37_Witness ==
  /\ request.authHeader = Some("Bearer token-1")
  /\ Responded
  /\ Status = 401
  /\ handler.user = None
  /\ pc = "idle"

(***************************************************************************)
(* Properties of the saved row.                                           *)
(***************************************************************************)
\* The column each field of the output is written to.
ColumnOf ==
  [recipeData |-> "recipe_data", imageUrl |-> "image_url", isUrl |-> "is_url",
   isRecipe |-> "is_recipe", isSocial |-> "is_social", provider |-> "provider",
   originalUrl |-> "original_url", recipeName |-> "recipe_name",
   timeMinutes |-> "time_minutes", servesPeople |-> "serves_people",
   makesItems |-> "makes_items", languageCode |-> "language_code"]

RowBuilt == handler.row # None

\* C38: in the row built from the output of a run, every column holds the value of
\* its output field whenever the field is defined (isSocial=false included), and is
\* null only when the field is absent; the units column holds the units object.
C38_RowPreservesOutput ==
  RowBuilt =>
    /\ \A f \in DOMAIN ColumnOf :
         /\ output[1][f] # None => handler.row[1][ColumnOf[f]] = output[1][f]
         /\ handler.row[1][ColumnOf[f]] = None => output[1][f] = None
    /\ handler.row[1].units # None

(***************************************************************************)
(* Properties of the empty-element removal loop.                          *)
(***************************************************************************)
\* C39 as stated: the number of iterations is at most the length of the input.
C39_IterationsWithinLength == emptyLoop.iterations <= Len(emptyLoop.html)

\* Every iteration has made the string strictly shorter or was the last one.
ShortensOrLast ==
  emptyLoop.previousLength # None =>
    Len(emptyLoop.result) < emptyLoop.previousLength[1] \/ emptyLoop.returned

\* On return one more replace, and so one more pass, changes nothing.
FixedPointOnExit ==
  emptyLoop.returned =>
    /\ RemoveAll["empty", emptyLoop.result, 1, ""] = emptyLoop.result
    /\ EmptyPass(emptyLoop.result) = emptyLoop.result

\* C39: the removal loop returns for every input string; each of its iterations
\* strictly shortens the string or is the last one, so that it makes at most one
\* iteration more than the input has characters; and on return a further removal
\* pass changes nothing.
C39_LoopTerminatesAtFixedPoint ==
  /\ [](/\ ShortensOrLast
        /\ emptyLoop.iterations <= Len(emptyLoop.html) + 1
        /\ FixedPointOnExit)
  /\ <>emptyLoop.returned

\* Five nested empty elements are gone after four iterations, and the loop has
\* returned what removeEmptyElements_ returns.
C39_Witness ==
  /\ emptyLoop.returned
  /\ emptyLoop.html = "<div><p><div><p><div> \n</div></p></div></p></div>"
  /\ emptyLoop.iterations = 4
  /\ emptyLoop.result = ""
  /\ emptyLoop.result = removeEmptyElements_[emptyLoop.html]
====
